---- MODULE Spec2Model ----
(***************************************************************************)
(* Verification model of CppLiveTuner (include/LiveTuner.h).               *)
(*                                                                         *)
(* Spec        : the Params orchestrator (bind / update / callback /       *)
(*               re-entrancy guard) driven by one caller thread, together  *)
(*               with the worker thread of its FileWatcher.                *)
(* WatcherSpec : FileWatcher::start / stop / notify_change /               *)
(*               wait_for_change at the granularity of cv_mtx_ and cv_.    *)
(***************************************************************************)
EXTENDS Integers, Sequences, FiniteSets, TLC

\* ------------------------------------------------------------------------
\* Bounds of the model
\* ------------------------------------------------------------------------
\* longest file the environment writes, in lines
MaxLines == 2
\* number of times the environment touches the file (modify-times 1..MaxWrites)
MaxWrites == 2
\* number of clock ticks in a behaviour
MaxTicks == 1
\* number of overflow signals the directory-change worker gets
MaxOverflows == 2
\* largest max_retries handed to read_file_with_retry
MaxRetries == 3

\* ------------------------------------------------------------------------
\* Program constants
\* ------------------------------------------------------------------------
\* Params::FileCache::cache_duration (milliseconds)
cache_duration == 10
\* FileWatcherConfig::min_buffer_size
min_buffer_size == 4096
\* file_time_type::min(): the modify-time of no file
file_time_min == 0
\* one tick of the steady clock, in milliseconds
TickMs == 10

\* ------------------------------------------------------------------------
\* Threads
\* ------------------------------------------------------------------------
Main == "main"
Worker == "worker"
Threads == {Main, Worker}
\* the thread the application calls the Params operations from
Callers == {Main}

\* ------------------------------------------------------------------------
\* Strings, file contents
\* ------------------------------------------------------------------------
Keys == {"speed", "gain"}
Digits == {"2", "5", "7"}
\* value strings that occur in files: "7", "25", and "7x" (not a number)
ValueStrings == { <<"7">>, <<"2", "5">>, <<"7", "x">> }

CommentLine == [kind |-> "comment", key |-> "", value |-> <<>>]
\* the lines an editor writes: "speed" with each of the value strings, "gain"
\* with the one value it is given when it is present
KvLines == { l \in { [kind |-> "kv", key |-> k, value |-> v] : k \in Keys, v \in ValueStrings } :
                l.key = "gain" => l.value = <<"7">> }
Lines == {CommentLine} \cup KvLines

SeqsUpTo(S, n) == UNION { [1..m -> S] : m \in 0..n }

\* comment lines first, then at most one line per key, "speed" before "gain"
LineRank(line) == IF line.kind = "comment" THEN 0
                  ELSE IF line.key = "speed" THEN 1 ELSE 2
EditorLayout(s) ==
    \A i, j \in DOMAIN s :
        i < j => \/ LineRank(s[i]) < LineRank(s[j])
                 \/ LineRank(s[i]) = 0 /\ LineRank(s[j]) = 0

\* the contents an editor leaves in the file (<<>> is a zero-byte file)
FileContents == { s \in SeqsUpTo(Lines, MaxLines) : EditorLayout(s) }

\* the key-value template of Params::ensure_file_exists: two comment lines
\* and a blank line, none of which holds a key
KeyValueTemplate == <<CommentLine, CommentLine, CommentLine>>

EmptyMap == [k \in {} |-> <<>>]

Put(m, k, v) == [x \in (DOMAIN m) \cup {k} |-> IF x = k THEN v ELSE m[x]]

\* SimpleKeyValueParser::parse: the map built from the lines; comment, blank
\* and marker lines are skipped, a later line of a key replaces an earlier one
RECURSIVE ParseLines(_, _)
ParseLines(lines, result) ==
    IF lines = <<>> THEN result
    ELSE LET line == Head(lines) IN
         ParseLines(Tail(lines),
                    IF line.kind = "kv" /\ line.key # ""
                    THEN Put(result, line.key, line.value)
                    ELSE result)

\* [parsed, values]: parse() returns !result.empty()
SimpleKeyValueParser_parse(content) ==
    LET result == ParseLines(content, EmptyMap) IN
    [parsed |-> result # EmptyMap, values |-> result]

\* ------------------------------------------------------------------------
\* internal::parse_value<int>
\* ------------------------------------------------------------------------
DigitVal(c) == CASE c = "2" -> 2 [] c = "5" -> 5 [] c = "7" -> 7 [] OTHER -> 0

\* operator>> on an int: the longest digit prefix; [n, val, rest]
RECURSIVE ReadDigits(_, _, _)
ReadDigits(s, n, val) ==
    IF s # <<>> /\ Head(s) \in Digits
    THEN ReadDigits(Tail(s), n + 1, val * 10 + DigitVal(Head(s)))
    ELSE [n |-> n, val |-> val, rest |-> s]

\* a variant that writes through to the target as `iss >> value` would: a failed
\* extraction stores 0
parse_value_direct(str, value) ==
    LET r == ReadDigits(str, 0, 0) IN
    IF r.n > 0 /\ r.rest = <<>>
    THEN [ok |-> TRUE, value |-> r.val]
    ELSE [ok |-> FALSE, value |-> 0]

\* parse into a temporary; the target is assigned only when the whole string
\* was consumed
parse_value(str, value) ==
    LET r == ReadDigits(str, 0, 0) IN
    IF r.n > 0 /\ r.rest = <<>>
    THEN [ok |-> TRUE, value |-> r.val]
    ELSE [ok |-> FALSE, value |-> value]

\* ------------------------------------------------------------------------
\* internal::read_file_with_retry
\* ------------------------------------------------------------------------
ErrorTypes == {"None", "FileNotFound", "FileAccessDenied", "FileEmpty",
               "FileReadError", "ParseError", "InvalidFormat", "Timeout",
               "WatcherError", "Unknown"}

\* the body of the loop for one attempt, over what the file system gives it:
\* o.exists and o.ec_exists are the result and the error code of exists(),
\* o.ec_size and o.file_size those of file_size(), o.opens the state of the
\* ifstream, o.read how the read ended ("ok", "throws", "bad": neither good
\* nor eof) and o.content what it read.  [error, content]
read_attempt(o) ==
    IF ~o.exists THEN [error |-> "FileNotFound", content |-> <<>>]
    ELSE IF o.ec_exists THEN [error |-> "FileAccessDenied", content |-> <<>>]
    ELSE IF o.ec_size THEN [error |-> "FileReadError", content |-> <<>>]
    ELSE IF o.file_size = 0 THEN [error |-> "FileEmpty", content |-> <<>>]
    ELSE IF ~o.opens THEN [error |-> "FileAccessDenied", content |-> <<>>]
    ELSE IF o.read = "throws" THEN [error |-> "FileReadError", content |-> <<>>]
    ELSE IF o.read = "bad" THEN [error |-> "FileReadError", content |-> <<>>]
    ELSE IF o.content = <<>> THEN [error |-> "FileEmpty", content |-> <<>>]
    ELSE [error |-> "None", content |-> o.content]

\* the sum of a sequence of durations
RECURSIVE Sum(_)
Sum(seq) == IF seq = <<>> THEN 0 ELSE Head(seq) + Sum(Tail(seq))

\* what one attempt of the loop observes of the file
Attempt(f) ==
    IF ~f.exists THEN "FileNotFound"
    ELSE IF f.lines = <<>> THEN "FileEmpty"
    ELSE IF ~f.readable THEN "FileAccessDenied"
    ELSE "None"

\* a variant with no backoff: the delay stays what it was
next_delay_fixed(delay, config) == delay

\* delay = milliseconds(static_cast<int>(delay.count() * backoff_multiplier)):
\* the multiplier is backoff_num / backoff_den, the conversion truncates
next_delay(delay, config) == (delay * config.backoff_num) \div config.backoff_den

\* a variant of the loop that keeps the first error it met
RECURSIVE read_attempts_first(_, _, _, _, _, _)
read_attempts_first(obs, attempt, config, delay, sleeps, last_error) ==
    IF attempt > config.max_retries
    THEN [has_content |-> FALSE, content |-> <<>>, error |-> last_error,
          slept |-> Sum(sleeps), sleeps |-> sleeps, attempts |-> attempt]
    ELSE LET sl == IF attempt > 0 THEN Append(sleeps, delay) ELSE sleeps
             dl == IF attempt > 0 THEN next_delay(delay, config) ELSE delay
         IN IF obs[attempt + 1].error = "None"
            THEN [has_content |-> TRUE, content |-> obs[attempt + 1].content,
                  error |-> "None", slept |-> Sum(sl), sleeps |-> sl,
                  attempts |-> attempt + 1]
            ELSE read_attempts_first(obs, attempt + 1, config, dl, sl,
                                     IF last_error = "None" THEN obs[attempt + 1].error
                                     ELSE last_error)

\* the loop from attempt on, over the observations obs (obs[attempt + 1] is
\* what that attempt sees of the file: its error, or "None" and the content);
\* before every attempt but the first the loop sleeps for delay and scales
\* it; the first success returns the content with no error, after the last
\* attempt last_error is reported.  sleeps are the sleeps requested so far, in
\* milliseconds and in order, slept their total, attempts the number of
\* attempts made
RECURSIVE read_attempts(_, _, _, _, _, _)
read_attempts(obs, attempt, config, delay, sleeps, last_error) ==
    IF attempt > config.max_retries
    THEN [has_content |-> FALSE, content |-> <<>>, error |-> last_error,
          slept |-> Sum(sleeps), sleeps |-> sleeps, attempts |-> attempt]
    ELSE LET sl == IF attempt > 0 THEN Append(sleeps, delay) ELSE sleeps
             dl == IF attempt > 0 THEN next_delay(delay, config) ELSE delay
         IN IF obs[attempt + 1].error = "None"
            THEN [has_content |-> TRUE, content |-> obs[attempt + 1].content,
                  error |-> "None", slept |-> Sum(sl), sleeps |-> sl,
                  attempts |-> attempt + 1]
            ELSE read_attempts(obs, attempt + 1, config, dl, sl, obs[attempt + 1].error)

read_loop_first(obs, config) ==
    read_attempts_first(obs, 0, config, config.retry_delay, <<>>, "None")

\* read_file_with_retry over the observations of its attempts
read_loop(obs, config) ==
    read_attempts(obs, 0, config, config.retry_delay, <<>>, "None")

\* every attempt of one call sees the file f
read_file_with_retry(f, config) ==
    read_loop([i \in 1..(config.max_retries + 1) |->
                   [error |-> Attempt(f),
                    content |-> IF Attempt(f) = "None" THEN f.lines ELSE <<>>]],
              config)

\* ------------------------------------------------------------------------
\* FileWatcherConfig
\* ------------------------------------------------------------------------
validate(c) ==
    LET b1 == IF c.buffer_size < min_buffer_size THEN min_buffer_size ELSE c.buffer_size
        b2 == IF b1 > c.max_buffer_size THEN c.max_buffer_size ELSE b1
    IN [c EXCEPT !.buffer_size = b2]

DefaultWatcherConfig == [buffer_size |-> 65536, max_buffer_size |-> 1048576]
WatcherConfigs == {DefaultWatcherConfig, [buffer_size |-> 2048, max_buffer_size |-> 1048576]}

\* FileReadRetryConfig{}: 3 retries, 5 ms, multiplier 1.5
DefaultRetryConfig == [max_retries |-> 3, retry_delay |-> 5,
                       backoff_num |-> 3, backoff_den |-> 2]
RetryConfigs == {DefaultRetryConfig, [DefaultRetryConfig EXCEPT !.max_retries = 0]}

\* default values handed to bind()
Defaults == {1}

VARIABLES
    \* the file system and the clocks
    file,                   \* [exists, readable, lines, mtime]
    fs_clock,               \* the last modify-time handed out
    now,                    \* steady_clock::now(), in milliseconds
    inotify_pending,        \* an event on the watched name is queued in the kernel
    \* Params
    file_cache_,            \* [last_modify_time, last_access, file_exists]
    bindings_,              \* name -> [default_value]; the target is target[name]
    target,                 \* the bound program variables, one per name
    current_values_,        \* name -> value string
    file_watcher_,          \* the unique_ptr is non-null
    file_watcher_config_,
    file_read_retry_config_,
    file_changed_,
    last_error_,
    on_change_callback_,    \* a callback is registered
    in_callback_,
    \* the threads
    pc,                     \* where each thread is
    updated,                \* update()'s local of each thread
    callback_to_invoke,     \* update()'s local: the callback was snapshotted
    cb_thread,              \* the thread that executes the on_change callback
    last_log,               \* the last message the running callback's calls
                            \* handed to internal::log
    \* FileWatcher
    running_,
    change_detected_,
    mode,                   \* what start_native() set up: "none", "native", "polling"
    last_modify_time,       \* local of watch_polling
    \* FileWatcher, at the granularity of cv_mtx_ and cv_ (WatcherSpec)
    wpc,                    \* where the waiters, the controller and the worker are
    cv_mtx_,                \* the owner of the mutex, or "free"
    cv_waiters,             \* the threads blocked in cv_
    timed,                  \* the waiter called wait_for_change(timeout)
    timed_out,              \* the thread's wait on cv_ ended by its timeout
    result,                 \* what wait_for_change returned
    pipe_signalled,         \* stop_native wrote to the worker's pipe
    in_start,               \* the controller's stop() was called by start()
    event_pending,          \* history: change_detected_ holds a file event
    consumed_event,         \* history: the waiter's last return took a file event
    start_result,           \* what the last FileWatcher::start returned: "none", "true", "false"
    \* internal::read_file_with_retry called on its own (ReaderSpec)
    reader,                 \* [config, obs, done, result]
    \* FileWatcher with the directory-change-record backend (BufferSpec)
    config_,                \* FileWatcher::config_
    buffer,                 \* size of the worker's buffer, 0 without a worker
    current_buffer_size,    \* impl_->current_buffer_size
    overflow_calls,         \* the calls of config_.on_buffer_overflow, in order
    overflow_signals,       \* number of overflow signals the worker has handled
    \* an ErrorInfo on its own (ErrorSpec)
    einfo,                  \* [arg, info, as_bool]
    \* the locals of watch_polling (PollSpec)
    poller,                 \* [poll_interval, no_change_count]
    \* LiveTuner (TunerSpec, GetSpec)
    tuner,                  \* the object: [file_cache_, last_error_, use_event_driven_]
    call,                   \* the frame of the thread that is in try_get, get or get_timeout
    \* Params at the granularity of mtx_ (LockSpec)
    mtx_,                   \* the owner of Params::mtx_, or "free"
    apc,                    \* where each application thread is
    snapshot,               \* update()'s local callback_to_invoke of each thread
    \* the move operations (WatcherMoveSpec, ParamsMoveSpec)
    fwm,                    \* two FileWatcher objects and the worker thread
    pm                      \* two Params objects and their FileWatcher

paramsVars == <<file_cache_, bindings_, target, current_values_, file_watcher_,
                file_watcher_config_, file_read_retry_config_, file_changed_,
                last_error_, on_change_callback_, in_callback_>>
threadVars == <<pc, updated, callback_to_invoke, cb_thread, last_log>>
envVars == <<file, fs_clock, now, inotify_pending>>
watcherVars == <<running_, change_detected_, mode, last_modify_time>>

cvVars == <<wpc, cv_mtx_, cv_waiters, timed, timed_out, result, pipe_signalled,
            in_start, event_pending, consumed_event>>

readerVars == <<reader>>
bufferVars == <<config_, buffer, current_buffer_size, overflow_calls, overflow_signals>>
lockVars == <<mtx_, apc, snapshot>>
moveVars == <<fwm, pm>>
extVars == <<einfo, poller, tuner, call, lockVars, moveVars>>
auxVars == <<start_result, readerVars, bufferVars, extVars>>

vars == <<file, fs_clock, now, inotify_pending, file_cache_, bindings_, target,
          current_values_, file_watcher_, file_watcher_config_,
          file_read_retry_config_, file_changed_, last_error_,
          on_change_callback_, in_callback_, pc, updated, callback_to_invoke,
          cb_thread, last_log, running_, change_detected_, mode, last_modify_time,
          wpc, cv_mtx_, cv_waiters, timed, timed_out, result, pipe_signalled,
          in_start, event_pending, consumed_event, start_result, reader,
          config_, buffer, current_buffer_size, overflow_calls, overflow_signals,
          einfo, poller, tuner, call, mtx_, apc, snapshot, fwm, pm>>


\* ------------------------------------------------------------------------
\* Params::load_file and its parts
\* ------------------------------------------------------------------------
\* a variant that leaves out the size comparison after the key loop
values_changed_keys_only(new_values, cur_values) ==
    \E key \in DOMAIN new_values :
        key \notin DOMAIN cur_values \/ cur_values[key] # new_values[key]

\* "Check if values changed": a key of the new map that is missing from or
\* different in the stored map, or a different number of keys
values_changed(new_values, cur_values) ==
    LET any_changed == \E key \in DOMAIN new_values :
                           key \notin DOMAIN cur_values \/ cur_values[key] # new_values[key]
    IN any_changed \/ Cardinality(DOMAIN new_values) # Cardinality(DOMAIN cur_values)

\* a variant that notifies without having applied the values
update_bound_variables_skipped(bindings, values, tgt) == tgt

\* "Update bound variables": Binding::update for a name of the map,
\* Binding::apply_default for a name that is not in it
update_bound_variables(bindings, values, tgt) ==
    [name \in Keys |->
        IF name \in DOMAIN bindings
        THEN IF name \in DOMAIN values
             THEN parse_value(values[name], tgt[name]).value
             ELSE bindings[name].default_value
        ELSE tgt[name]]

\* a variant that clears the stored values and applies the defaults when the
\* read fails
load_file_clears(read, cur_values, bindings, tgt, err) ==
    IF ~read.has_content
    THEN [updated |-> FALSE, current_values |-> EmptyMap,
          target |-> update_bound_variables(bindings, EmptyMap, tgt),
          last_error |-> read.error]
    ELSE LET p == SimpleKeyValueParser_parse(read.content) IN
         IF ~p.parsed /\ p.values = EmptyMap
         THEN [updated |-> FALSE, current_values |-> cur_values, target |-> tgt,
               last_error |-> "ParseError"]
         ELSE IF ~values_changed(p.values, cur_values)
         THEN [updated |-> FALSE, current_values |-> cur_values, target |-> tgt,
               last_error |-> err]
         ELSE [updated |-> TRUE, current_values |-> p.values,
               target |-> update_bound_variables(bindings, p.values, tgt),
               last_error |-> "None"]

\* Params::load_file on the outcome of the retrying read: what it returns and
\* what it leaves in current_values_, the bound variables and last_error_
load_file(read, cur_values, bindings, tgt, err) ==
    IF ~read.has_content
    THEN [updated |-> FALSE, current_values |-> cur_values, target |-> tgt,
          last_error |-> read.error]
    ELSE LET p == SimpleKeyValueParser_parse(read.content) IN
         IF ~p.parsed /\ p.values = EmptyMap
         THEN [updated |-> FALSE, current_values |-> cur_values, target |-> tgt,
               last_error |-> "ParseError"]
         ELSE IF ~values_changed(p.values, cur_values)
         THEN [updated |-> FALSE, current_values |-> cur_values, target |-> tgt,
               last_error |-> err]
         ELSE [updated |-> TRUE, current_values |-> p.values,
               target |-> update_bound_variables(bindings, p.values, tgt),
               last_error |-> "None"]

\* Params::ensure_file_exists: a missing file is created with the template
ensure_file_exists(f, clock) ==
    IF ~f.exists
    THEN [exists |-> TRUE, readable |-> TRUE, lines |-> KeyValueTemplate,
          mtime |-> clock + 1]
    ELSE f

\* internal::get_file_modify_time
get_file_modify_time(f) == IF f.exists THEN f.mtime ELSE file_time_min

\* the empty FileCache of the member initialiser and of invalidate_cache
EmptyFileCache == [last_modify_time |-> file_time_min, last_access |-> 0,
                   file_exists |-> FALSE]

\* a variant that takes the entry for valid once the window has passed
cache_hit_stale(cache, t_now, current_modify_time) ==
    /\ cache.file_exists
    /\ (t_now - cache.last_access) >= cache_duration
    /\ current_modify_time = cache.last_modify_time

\* "Cache check" of Params::update
cache_hit(cache, t_now, current_modify_time) ==
    /\ cache.file_exists
    /\ (t_now - cache.last_access) < cache_duration
    /\ current_modify_time = cache.last_modify_time

\* ------------------------------------------------------------------------
\* Initial state
\* ------------------------------------------------------------------------
InitEnv ==
    /\ file = [exists |-> FALSE, readable |-> TRUE, lines |-> <<>>, mtime |-> file_time_min]
    /\ fs_clock = 0
    /\ now = 0
    /\ inotify_pending = FALSE

InitParams ==
    /\ file_cache_ = EmptyFileCache
    /\ bindings_ = EmptyMap
    /\ target = [k \in Keys |-> 0]
    /\ current_values_ = EmptyMap
    /\ file_watcher_ = FALSE
    /\ file_watcher_config_ = DefaultWatcherConfig
    /\ file_read_retry_config_ = DefaultRetryConfig
    /\ file_changed_ = FALSE
    /\ last_error_ = "None"
    /\ on_change_callback_ = FALSE
    /\ in_callback_ = FALSE

InitThreads ==
    /\ pc = [t \in Threads |-> IF t = Worker THEN "off" ELSE "idle"]
    /\ updated = [t \in Threads |-> FALSE]
    /\ callback_to_invoke = [t \in Threads |-> FALSE]
    /\ cb_thread = "none"
    /\ last_log = "none"

InitWatcher ==
    /\ running_ = FALSE
    /\ change_detected_ = FALSE
    /\ mode = "none"
    /\ last_modify_time = file_time_min


\* ------------------------------------------------------------------------
\* Params: the public operations.  A caller calls them from the top level
\* (pc = "idle") or from inside its on_change callback (pc = "in_callback").
\* ------------------------------------------------------------------------
CanCall(t) == t \in Callers /\ pc[t] \in {"idle", "in_callback"}

\* where a thread continues when update() returns
ReturnPc(t) == IF t = Worker THEN "loop" ELSE "idle"

set_read_retry_config(t, config) ==
    /\ CanCall(t)
    /\ file_read_retry_config_' = config
    /\ UNCHANGED <<file_cache_, bindings_, target, current_values_, file_watcher_,
                   file_watcher_config_, file_changed_, last_error_,
                   on_change_callback_, in_callback_>>
    /\ UNCHANGED <<threadVars, envVars, watcherVars>>
    /\ UNCHANGED cvVars
    /\ UNCHANGED auxVars

set_watcher_config(t, config) ==
    /\ CanCall(t)
    /\ file_watcher_config_' = validate(config)
    /\ UNCHANGED <<file_cache_, bindings_, target, current_values_, file_watcher_,
                   file_read_retry_config_, file_changed_, last_error_,
                   on_change_callback_, in_callback_>>
    /\ UNCHANGED <<threadVars, envVars, watcherVars>>
    /\ UNCHANGED cvVars
    /\ UNCHANGED auxVars

bind(t, name, default_value) ==
    /\ CanCall(t)
    /\ bindings_' = Put(bindings_, name, [default_value |-> default_value])
    /\ target' = [target EXCEPT ![name] = default_value]
    /\ UNCHANGED <<file_cache_, current_values_, file_watcher_, file_watcher_config_,
                   file_read_retry_config_, file_changed_, last_error_,
                   on_change_callback_, in_callback_>>
    /\ UNCHANGED <<threadVars, envVars, watcherVars>>
    /\ UNCHANGED cvVars
    /\ UNCHANGED auxVars

unbind(t, name) ==
    /\ CanCall(t)
    /\ bindings_' = [k \in (DOMAIN bindings_) \ {name} |-> bindings_[k]]
    /\ UNCHANGED <<file_cache_, target, current_values_, file_watcher_,
                   file_watcher_config_, file_read_retry_config_, file_changed_,
                   last_error_, on_change_callback_, in_callback_>>
    /\ UNCHANGED <<threadVars, envVars, watcherVars>>
    /\ UNCHANGED cvVars
    /\ UNCHANGED auxVars

\* a variant with no in_callback_ test
unbind_all_unguarded(t) ==
    /\ CanCall(t)
    /\ bindings_' = EmptyMap
    /\ UNCHANGED <<file_cache_, target, current_values_, file_watcher_,
                   file_watcher_config_, file_read_retry_config_, file_changed_,
                   last_error_, on_change_callback_, in_callback_>>
    /\ UNCHANGED <<threadVars, envVars, watcherVars>>
    /\ UNCHANGED cvVars
    /\ UNCHANGED auxVars

unbind_all(t) ==
    /\ CanCall(t)
    /\ IF in_callback_
       THEN /\ last_log' = "unbind_all skipped"
            /\ UNCHANGED <<bindings_, pc, updated, callback_to_invoke, cb_thread>>
       ELSE /\ bindings_' = EmptyMap
            /\ UNCHANGED threadVars
    /\ UNCHANGED <<file_cache_, target, current_values_, file_watcher_,
                   file_watcher_config_, file_read_retry_config_, file_changed_,
                   last_error_, on_change_callback_, in_callback_>>
    /\ UNCHANGED <<envVars, watcherVars>>
    /\ UNCHANGED cvVars
    /\ UNCHANGED auxVars

on_change(t, callback) ==
    /\ CanCall(t)
    /\ on_change_callback_' = callback
    /\ UNCHANGED <<file_cache_, bindings_, target, current_values_, file_watcher_,
                   file_watcher_config_, file_read_retry_config_, file_changed_,
                   last_error_, in_callback_>>
    /\ UNCHANGED <<threadVars, envVars, watcherVars>>
    /\ UNCHANGED cvVars
    /\ UNCHANGED auxVars

clear_error(t) ==
    /\ CanCall(t)
    /\ last_error_' = "None"
    /\ UNCHANGED <<file_cache_, bindings_, target, current_values_, file_watcher_,
                   file_watcher_config_, file_read_retry_config_, file_changed_,
                   on_change_callback_, in_callback_>>
    /\ UNCHANGED <<threadVars, envVars, watcherVars>>
    /\ UNCHANGED cvVars
    /\ UNCHANGED auxVars

invalidate_cache(t) ==
    /\ CanCall(t)
    /\ IF in_callback_
       THEN /\ last_log' = "invalidate_cache skipped"
            /\ UNCHANGED <<file_cache_, current_values_, pc, updated,
                           callback_to_invoke, cb_thread>>
       ELSE /\ file_cache_' = EmptyFileCache
            /\ current_values_' = EmptyMap
            /\ UNCHANGED threadVars
    /\ UNCHANGED <<bindings_, target, file_watcher_, file_watcher_config_,
                   file_read_retry_config_, file_changed_, last_error_,
                   on_change_callback_, in_callback_>>
    /\ UNCHANGED <<envVars, watcherVars>>
    /\ UNCHANGED cvVars
    /\ UNCHANGED auxVars

reset_to_defaults(t) ==
    /\ CanCall(t)
    /\ IF in_callback_
       THEN /\ last_log' = "reset_to_defaults skipped"
            /\ UNCHANGED <<target, pc, updated, callback_to_invoke, cb_thread>>
       ELSE /\ target' = [name \in Keys |->
                             IF name \in DOMAIN bindings_
                             THEN bindings_[name].default_value
                             ELSE target[name]]
            /\ UNCHANGED threadVars
    /\ UNCHANGED <<file_cache_, bindings_, current_values_, file_watcher_,
                   file_watcher_config_, file_read_retry_config_, file_changed_,
                   last_error_, on_change_callback_, in_callback_>>
    /\ UNCHANGED <<envVars, watcherVars>>
    /\ UNCHANGED cvVars
    /\ UNCHANGED auxVars

\* ------------------------------------------------------------------------
\* Params::update
\* ------------------------------------------------------------------------
\* the re-entrancy test at the head of update(); a thread that passes it goes
\* on to take mtx_.  updated and callback_to_invoke are the locals of the
\* thread's outermost update(): a call skipped inside the callback returns
\* false without touching them
update_enter(t) ==
    IF in_callback_
    THEN /\ last_log' = "update skipped"
         /\ updated' = IF pc[t] = "in_callback" THEN updated
                       ELSE [updated EXCEPT ![t] = FALSE]
         /\ UNCHANGED <<pc, callback_to_invoke, cb_thread>>
    ELSE /\ pc' = [pc EXCEPT ![t] = "update"]
         /\ updated' = [updated EXCEPT ![t] = FALSE]
         /\ callback_to_invoke' = [callback_to_invoke EXCEPT ![t] = FALSE]
         /\ UNCHANGED <<cb_thread, last_log>>

update(t) ==
    /\ CanCall(t)
    /\ update_enter(t)
    /\ UNCHANGED <<paramsVars, envVars, watcherVars>>
    /\ UNCHANGED cvVars
    /\ UNCHANGED auxVars

\* the block of update() under mtx_
update_locked(t) ==
    /\ pc[t] = "update"
    /\ LET f == ensure_file_exists(file, fs_clock)
           current_modify_time == get_file_modify_time(f)
       IN
       /\ file' = f
       /\ fs_clock' = IF file.exists THEN fs_clock ELSE fs_clock + 1
       /\ inotify_pending' = IF ~file.exists /\ running_ /\ mode = "native"
                             THEN TRUE ELSE inotify_pending
       /\ IF cache_hit(file_cache_, now, current_modify_time)
          THEN /\ pc' = [pc EXCEPT ![t] = ReturnPc(t)]
               /\ UNCHANGED <<file_cache_, current_values_, target, last_error_,
                              updated, callback_to_invoke>>
          ELSE LET r == load_file(read_file_with_retry(f, file_read_retry_config_),
                                  current_values_, bindings_, target, last_error_)
               IN
               /\ current_values_' = r.current_values
               /\ target' = r.target
               /\ last_error_' = r.last_error
               /\ file_cache_' = [last_modify_time |-> current_modify_time,
                                  last_access |-> now, file_exists |-> TRUE]
               /\ updated' = [updated EXCEPT ![t] = r.updated]
               /\ callback_to_invoke' =
                      [callback_to_invoke EXCEPT ![t] = r.updated /\ on_change_callback_]
               /\ pc' = [pc EXCEPT ![t] =
                            IF r.updated /\ on_change_callback_ THEN "invoke"
                            ELSE ReturnPc(t)]
    /\ UNCHANGED <<bindings_, file_watcher_, file_watcher_config_,
                   file_read_retry_config_, file_changed_, on_change_callback_,
                   in_callback_, now, cb_thread, last_log, watcherVars>>
    /\ UNCHANGED cvVars
    /\ UNCHANGED auxVars

\* in_callback_.store(true); callback_to_invoke() starts on this thread
callback_begin(t) ==
    /\ pc[t] = "invoke"
    /\ in_callback_' = TRUE
    /\ pc' = [pc EXCEPT ![t] = "in_callback"]
    /\ cb_thread' = t
    /\ UNCHANGED <<file_cache_, bindings_, target, current_values_, file_watcher_,
                   file_watcher_config_, file_read_retry_config_, file_changed_,
                   last_error_, on_change_callback_>>
    /\ UNCHANGED <<updated, callback_to_invoke, last_log, envVars, watcherVars>>
    /\ UNCHANGED cvVars
    /\ UNCHANGED auxVars

\* the callback returns or throws: in_callback_.store(false) on both paths,
\* then update() returns updated or rethrows
callback_return(t) ==
    /\ pc[t] = "in_callback"
    /\ in_callback_' = FALSE
    /\ pc' = [pc EXCEPT ![t] = ReturnPc(t)]
    /\ cb_thread' = "none"
    /\ last_log' = "none"
    /\ UNCHANGED <<file_cache_, bindings_, target, current_values_, file_watcher_,
                   file_watcher_config_, file_read_retry_config_, file_changed_,
                   last_error_, on_change_callback_>>
    /\ UNCHANGED <<updated, callback_to_invoke, envVars, watcherVars>>
    /\ UNCHANGED cvVars
    /\ UNCHANGED auxVars

\* Params::poll
poll(t) ==
    /\ CanCall(t)
    /\ file_changed_
    /\ file_changed_' = FALSE
    /\ update_enter(t)
    /\ UNCHANGED <<file_cache_, bindings_, target, current_values_, file_watcher_,
                   file_watcher_config_, file_read_retry_config_, last_error_,
                   on_change_callback_, in_callback_>>
    /\ UNCHANGED <<envVars, watcherVars>>
    /\ UNCHANGED cvVars
    /\ UNCHANGED auxVars


\* ------------------------------------------------------------------------
\* The FileWatcher as Params drives it: start() and stop() as whole calls
\* ------------------------------------------------------------------------
\* FileWatcher::start on a watcher that is not running: running_ is set and
\* start_native() sets up inotify or falls back to start_polling()
\* start_polling: the polling worker is created; returns true
start_polling ==
    /\ mode' = "polling"
    /\ pc' = [pc EXCEPT ![Worker] = "loop"]
    /\ start_result' = "true"

\* a variant in which a failed native set-up is reported to the caller and no
\* worker is created
FileWatcher_start_reports(native_ok) ==
    /\ running_' = TRUE
    /\ last_modify_time' = file_time_min
    /\ inotify_pending' = FALSE
    /\ IF native_ok
       THEN /\ mode' = "native"
            /\ pc' = [pc EXCEPT ![Worker] = "loop"]
            /\ start_result' = "true"
       ELSE /\ mode' = "none"
            /\ pc' = [pc EXCEPT ![Worker] = "off"]
            /\ start_result' = "false"

FileWatcher_start(native_ok) ==
    /\ running_' = TRUE
    /\ last_modify_time' = file_time_min
    /\ inotify_pending' = FALSE
    /\ IF native_ok
       THEN /\ mode' = "native"
            /\ pc' = [pc EXCEPT ![Worker] = "loop"]
            /\ start_result' = "true"
       ELSE start_polling

\* FileWatcher::stop on a running watcher: the flag that wakes the waiters,
\* stop_native() and the join of the worker
FileWatcher_stop ==
    /\ running_' = FALSE
    /\ change_detected_' = TRUE
    /\ mode' = "none"
    /\ inotify_pending' = FALSE
    /\ pc' = [pc EXCEPT ![Worker] = "off"]

start_watching(t) ==
    /\ CanCall(t)
    /\ IF in_callback_
       THEN /\ last_log' = "start_watching skipped"
            /\ UNCHANGED <<file_watcher_, file_changed_, pc, watcherVars,
                           inotify_pending, start_result>>
       ELSE IF file_watcher_ /\ running_
       THEN UNCHANGED <<file_watcher_, file_changed_, pc, watcherVars,
                        inotify_pending, last_log, start_result>>
       ELSE /\ file_watcher_' = TRUE
            /\ file_changed_' = TRUE
            /\ change_detected_' = FALSE
            /\ \E native_ok \in BOOLEAN : FileWatcher_start(native_ok)
            /\ UNCHANGED last_log
    /\ UNCHANGED <<file_cache_, bindings_, target, current_values_,
                   file_watcher_config_, file_read_retry_config_, last_error_,
                   on_change_callback_, in_callback_>>
    /\ UNCHANGED <<updated, callback_to_invoke, cb_thread, file, fs_clock, now>>
    /\ UNCHANGED cvVars
    /\ UNCHANGED <<readerVars, bufferVars, extVars>>

stop_watching(t) ==
    /\ CanCall(t)
    /\ IF in_callback_
       THEN /\ last_log' = "stop_watching skipped"
            /\ UNCHANGED <<file_watcher_, pc, watcherVars, inotify_pending>>
       ELSE IF file_watcher_
       THEN /\ pc[Worker] \in {"off", "loop"}
            /\ file_watcher_' = FALSE
            /\ running_' = FALSE
            /\ change_detected_' = FALSE
            /\ mode' = "none"
            /\ inotify_pending' = FALSE
            /\ pc' = [pc EXCEPT ![Worker] = "off"]
            /\ UNCHANGED <<last_modify_time, last_log>>
       ELSE UNCHANGED <<file_watcher_, pc, watcherVars, inotify_pending, last_log>>
    /\ UNCHANGED <<file_cache_, bindings_, target, current_values_,
                   file_watcher_config_, file_read_retry_config_, file_changed_,
                   last_error_, on_change_callback_, in_callback_>>
    /\ UNCHANGED <<updated, callback_to_invoke, cb_thread, file, fs_clock, now>>
    /\ UNCHANGED cvVars
    /\ UNCHANGED auxVars

\* Params::set_file with the path the Params already has
set_file(t) ==
    /\ CanCall(t)
    /\ IF in_callback_
       THEN /\ last_log' = "set_file skipped"
            /\ UNCHANGED <<file_cache_, current_values_, pc, watcherVars,
                           inotify_pending, start_result>>
       ELSE /\ file_cache_' = EmptyFileCache
            /\ current_values_' = EmptyMap
            /\ IF file_watcher_ /\ running_
               THEN /\ pc[Worker] = "loop"
                    /\ change_detected_' = TRUE
                    /\ \E native_ok \in BOOLEAN : FileWatcher_start(native_ok)
               ELSE UNCHANGED <<pc, watcherVars, inotify_pending, start_result>>
            /\ UNCHANGED last_log
    /\ UNCHANGED <<bindings_, target, file_watcher_, file_watcher_config_,
                   file_read_retry_config_, file_changed_, last_error_,
                   on_change_callback_, in_callback_>>
    /\ UNCHANGED <<updated, callback_to_invoke, cb_thread, file, fs_clock, now>>
    /\ UNCHANGED cvVars
    /\ UNCHANGED <<readerVars, bufferVars, extVars>>

\* ------------------------------------------------------------------------
\* The worker thread of the FileWatcher
\* ------------------------------------------------------------------------
\* a variant of the lambda that calls update() on the watcher's thread
watch_callback_updates(t) ==
    /\ file_changed_' = TRUE
    /\ pc' = [pc EXCEPT ![t] = "update"]

\* the lambda start_watching() hands to FileWatcher::start
watch_callback(t) ==
    /\ file_changed_' = TRUE
    /\ UNCHANGED pc

\* FileWatcher::notify_change: the flag, the signal, the callback
notify_change(t) ==
    /\ change_detected_' = TRUE
    /\ watch_callback(t)

\* one round of watch_polling that sees a new modify-time
watch_polling(t) ==
    /\ t = Worker /\ pc[t] = "loop"
    /\ running_ /\ mode = "polling"
    /\ file.exists /\ file.mtime # last_modify_time
    /\ last_modify_time' = file.mtime
    /\ notify_change(t)
    /\ UNCHANGED <<running_, mode, inotify_pending>>
    /\ UNCHANGED <<file_cache_, bindings_, target, current_values_, file_watcher_,
                   file_watcher_config_, file_read_retry_config_, last_error_,
                   on_change_callback_, in_callback_>>
    /\ UNCHANGED <<updated, callback_to_invoke, cb_thread, last_log, file, fs_clock, now>>
    /\ UNCHANGED cvVars
    /\ UNCHANGED auxVars

\* one round of the inotify worker that reads an event of the watched name
watch_native(t) ==
    /\ t = Worker /\ pc[t] = "loop"
    /\ running_ /\ mode = "native"
    /\ inotify_pending
    /\ inotify_pending' = FALSE
    /\ notify_change(t)
    /\ UNCHANGED <<running_, mode, last_modify_time>>
    /\ UNCHANGED <<file_cache_, bindings_, target, current_values_, file_watcher_,
                   file_watcher_config_, file_read_retry_config_, last_error_,
                   on_change_callback_, in_callback_>>
    /\ UNCHANGED <<updated, callback_to_invoke, cb_thread, last_log, file, fs_clock, now>>
    /\ UNCHANGED cvVars
    /\ UNCHANGED auxVars

\* ------------------------------------------------------------------------
\* The environment: an editor saving the file, the clock
\* ------------------------------------------------------------------------
WriteFile(content) ==
    /\ fs_clock < MaxWrites
    /\ fs_clock' = fs_clock + 1
    /\ file' = [exists |-> TRUE, readable |-> file.readable, lines |-> content,
                mtime |-> fs_clock + 1]
    /\ inotify_pending' = IF running_ /\ mode = "native" THEN TRUE ELSE inotify_pending
    /\ UNCHANGED <<now, paramsVars, threadVars, watcherVars>>
    /\ UNCHANGED cvVars
    /\ UNCHANGED auxVars

\* the file becomes unreadable (or readable again) for the process
SetReadable(r) ==
    /\ file.exists
    /\ file.readable # r
    /\ file' = [file EXCEPT !.readable = r]
    /\ UNCHANGED <<fs_clock, now, inotify_pending, paramsVars, threadVars, watcherVars>>
    /\ UNCHANGED cvVars
    /\ UNCHANGED auxVars

DeleteFile ==
    /\ file.exists
    /\ fs_clock < MaxWrites
    /\ file' = [exists |-> FALSE, readable |-> TRUE, lines |-> <<>>, mtime |-> file_time_min]
    /\ UNCHANGED <<fs_clock, now, inotify_pending, paramsVars, threadVars, watcherVars>>
    /\ UNCHANGED cvVars
    /\ UNCHANGED auxVars

Tick ==
    /\ now < MaxTicks * TickMs
    /\ now' = now + TickMs
    /\ UNCHANGED <<file, fs_clock, inotify_pending, paramsVars, threadVars, watcherVars>>
    /\ UNCHANGED cvVars
    /\ UNCHANGED auxVars

\* ------------------------------------------------------------------------
\* The threads of WatcherSpec
\* ------------------------------------------------------------------------
Controller == "controller"
\* a second thread of the application, which only calls stop()
Stopper == "stopper"
Waiters == {"waiter"}
WThreads == Waiters \cup {Controller, Stopper, Worker}

otherVars == <<paramsVars, threadVars, file, fs_clock, now>>

InitCv ==
    /\ wpc = [t \in WThreads |-> IF t = Worker THEN "none" ELSE "idle"]
    /\ cv_mtx_ = "free"
    /\ cv_waiters = {}
    /\ timed = [w \in Waiters |-> FALSE]
    /\ timed_out = [t \in Waiters \cup {Worker} |-> FALSE]
    /\ result = [w \in Waiters |-> "none"]
    /\ pipe_signalled = FALSE
    /\ in_start = FALSE
    /\ event_pending = FALSE
    /\ consumed_event = [w \in Waiters |-> FALSE]

\* no read_file_with_retry call of its own has been made
NoResult == [has_content |-> FALSE, content |-> <<>>, error |-> "None",
             slept |-> 0, sleeps |-> <<>>, attempts |-> 0]
NoRead == [config |-> DefaultRetryConfig, raw |-> <<>>, obs |-> <<>>,
           done |-> FALSE, result |-> NoResult]

\* a default-constructed FileWatcher, no worker
InitBuffer ==
    /\ config_ = DefaultWatcherConfig
    /\ buffer = 0
    /\ current_buffer_size = 0
    /\ overflow_calls = <<>>
    /\ overflow_signals = 0

\* ErrorInfo(): type None, empty strings, the epoch as timestamp
ErrorInfo_default == [type |-> "None", message |-> "", file_path |-> "", timestamp |-> 0]

\* ErrorInfo(t, msg, path), constructed at system-clock time clock
ErrorInfo_ctor(t, msg, path, clock) ==
    [type |-> t, message |-> msg, file_path |-> path, timestamp |-> clock]

\* a variant that tells an error by its message
ErrorInfo_bool_by_message(e) == e.message # ""

\* ErrorInfo::operator bool
ErrorInfo_bool(e) == e.type # "None"

\* no ErrorInfo of its own has been made
NoErrorInfo == [arg |-> "default", info |-> ErrorInfo_default, as_bool |-> "none"]

\* the polling worker has not been created
NoPoller == [poll_interval |-> 0, no_change_count |-> 0]

\* LiveTuner(): the empty cache, no error, event-driven; last_read is what the
\* last try_get that read the file saw of it, so far no file
InitTuner == [file_cache_ |-> EmptyFileCache, last_error_ |-> "None",
              use_event_driven_ |-> TRUE,
              last_read |-> [mtime |-> file_time_min, lines |-> <<>>]]

\* the thread is in no call
NoCall == [op |-> "none", pc |-> "none", value |-> 0, ret |-> "none", done |-> "none",
           entry |-> 0, outer |-> "none", now |-> 0, mtime |-> file_time_min,
           start_time |-> 0, timeout |-> 0, elapsed |-> 0, wait |-> 0,
           file_changed |-> FALSE, event_driven |-> TRUE, stored |-> FALSE,
           src |-> <<>>, tg |-> "none", started |-> FALSE, n |-> 0]

\* the application's threads of LockSpec
AppThreads == {"t1", "t2"}

\* mtx_ is free and no thread is in a call
InitLock ==
    /\ mtx_ = "free"
    /\ apc = [t \in AppThreads |-> "idle"]
    /\ snapshot = [t \in AppThreads |-> FALSE]

\* the two objects of a move: `other`, and the object constructed from it or
\* assigned to
Objs == {"other", "this"}

\* FileWatcher(): `other` is constructed, not started; `this` is not yet
InitWatcherMove ==
    [alive |-> [o \in Objs |-> o = "other"],
     running_ |-> [o \in Objs |-> FALSE],
     change_detected_ |-> [o \in Objs |-> FALSE],
     impl_ |-> [o \in Objs |-> o = "other"],
     joinable |-> [o \in Objs |-> FALSE],
     mode |-> "none", worker |-> "none", event |-> FALSE, pipe |-> FALSE,
     stop |-> [obj |-> "none", pc |-> "idle"],
     moved |-> "no", joins |-> 0]

\* Params(path): `other` is constructed, not watching; `this` is not yet
\* file_watcher_[o]: o holds a FileWatcher; running_, captured and event are
\* of the watcher o holds: it runs, the Params its callback captured, an
\* event it has not yet notified
InitParamsMove ==
    [alive |-> [o \in Objs |-> o = "other"],
     file_changed_ |-> [o \in Objs |-> FALSE],
     file_watcher_ |-> [o \in Objs |-> FALSE],
     running_ |-> [o \in Objs |-> FALSE],
     captured |-> [o \in Objs |-> "none"],
     event |-> [o \in Objs |-> FALSE],
     moved |-> "no", crashed |-> FALSE]

InitMove ==
    /\ fwm = InitWatcherMove
    /\ pm = InitParamsMove

InitExt ==
    /\ einfo = NoErrorInfo
    /\ poller = NoPoller
    /\ tuner = InitTuner
    /\ call = NoCall
    /\ InitLock
    /\ InitMove

InitAux ==
    /\ start_result = "none"
    /\ reader = NoRead
    /\ InitBuffer
    /\ InitExt

\* ------------------------------------------------------------------------
\* Spec: the update pipeline of Params over every file content
\* ------------------------------------------------------------------------
Init == InitEnv /\ InitParams /\ InitThreads /\ InitWatcher /\ InitCv /\ InitAux

Next ==
    \/ \E t \in Threads :
        \/ \E name \in Keys, d \in Defaults : bind(t, name, d)
        \/ on_change(t, TRUE)
        \/ invalidate_cache(t)
        \/ update(t)
        \/ update_locked(t)
        \/ callback_begin(t)
        \/ callback_return(t)
    \/ \E content \in FileContents : WriteFile(content)
    \/ \E r \in BOOLEAN : SetReadable(r)
    \/ DeleteFile
    \/ Tick

Spec == Init /\ [][Next]_vars

\* ------------------------------------------------------------------------
\* OpsSpec: every operation of Params and the worker of its FileWatcher,
\* over the files an editor makes of one line
\* ------------------------------------------------------------------------
OpsKeys == {"speed"}
OpsContents == { <<[kind |-> "kv", key |-> "speed", value |-> v]>> : v \in {<<"7">>, <<"2", "5">>} }

NextOps ==
    \/ \E t \in Threads :
        \/ \E config \in RetryConfigs : set_read_retry_config(t, config)
        \/ \E config \in WatcherConfigs : set_watcher_config(t, config)
        \/ \E name \in OpsKeys, d \in Defaults : bind(t, name, d)
        \/ \E name \in OpsKeys : unbind(t, name)
        \/ unbind_all(t)
        \/ on_change(t, TRUE)
        \/ clear_error(t)
        \/ invalidate_cache(t)
        \/ reset_to_defaults(t)
        \/ update(t)
        \/ update_locked(t)
        \/ callback_begin(t)
        \/ callback_return(t)
        \/ poll(t)
        \/ start_watching(t)
        \/ stop_watching(t)
        \/ set_file(t)
        \/ watch_polling(t)
        \/ watch_native(t)
    \/ \E content \in OpsContents : WriteFile(content)
    \/ Tick

OpsSpec == Init /\ [][NextOps]_vars

\* OpsLive: OpsSpec with the scheduling of the watcher's worker thread: a
\* round of the worker that can notify does come.  The calls of the
\* application's thread are the application's and are not forced.
OpsFairness ==
    /\ WF_vars(watch_polling(Worker))
    /\ WF_vars(watch_native(Worker))

OpsLive == OpsSpec /\ OpsFairness

\* ------------------------------------------------------------------------
\* LoopSpec: the application's frame loop -- bind, start_watching(), then
\* poll() every frame -- over a file an editor saves and that is at times
\* not readable for the process
\* ------------------------------------------------------------------------
NextLoop ==
    \/ \E d \in Defaults : bind(Main, "speed", d)
    \/ start_watching(Main)
    \/ ("speed" \in DOMAIN bindings_ /\ file_watcher_ /\ poll(Main))
    \/ update_locked(Main)
    \/ watch_polling(Worker)
    \/ watch_native(Worker)
    \/ \E content \in OpsContents : WriteFile(content)
    \/ \E r \in BOOLEAN : SetReadable(r)
    \/ Tick

LoopSpec == Init /\ [][NextLoop]_vars

\* LoopLive: the loop keeps calling poll() and each call runs to its return;
\* the worker's notifying rounds come
LoopFairness ==
    /\ WF_vars("speed" \in DOMAIN bindings_ /\ file_watcher_ /\ poll(Main))
    /\ WF_vars(update_locked(Main))
    /\ WF_vars(watch_polling(Worker))
    /\ WF_vars(watch_native(Worker))

LoopLive == LoopSpec /\ LoopFairness

\* ------------------------------------------------------------------------
\* LockSpec: Params at the granularity of mtx_ and in_callback_, called by
\* two threads of the application.  A lock_guard is a step that takes mtx_
\* when it is free and a step that releases it at the end of the scope.
\* ------------------------------------------------------------------------
lockRest == <<threadVars, watcherVars, cvVars, start_result, readerVars,
              bufferVars, einfo, poller, tuner, call, moveVars>>

\* the positions at which a thread reads or writes the binding table, the
\* stored map, the cache, the callback or the configuration
AccessPcs == {"u_block", "oc_locked", "cb_locked", "ic_write"}

\* the positions of a thread whose update() is executing the callback
CallbackPcs == {"in_callback", "cb_lock", "cb_locked"}

\* update(): if (in_callback_.load()) return false;
update_guard(t) ==
    /\ apc[t] = "idle"
    /\ apc' = [apc EXCEPT ![t] = IF in_callback_ THEN "idle" ELSE "u_lock"]
    /\ snapshot' = [snapshot EXCEPT ![t] = FALSE]
    /\ UNCHANGED <<mtx_, paramsVars, envVars, lockRest>>

\* std::lock_guard<std::mutex> lock(mtx_)
update_lock(t) ==
    /\ apc[t] = "u_lock"
    /\ mtx_ = "free"
    /\ mtx_' = t
    /\ apc' = [apc EXCEPT ![t] = "u_block"]
    /\ UNCHANGED <<snapshot, paramsVars, envVars, lockRest>>

\* the block of update() under mtx_, up to the snapshot of the callback
update_block(t) ==
    /\ apc[t] = "u_block"
    /\ LET f == ensure_file_exists(file, fs_clock)
           current_modify_time == get_file_modify_time(f)
       IN
       /\ file' = f
       /\ fs_clock' = IF file.exists THEN fs_clock ELSE fs_clock + 1
       /\ IF cache_hit(file_cache_, now, current_modify_time)
          THEN UNCHANGED <<file_cache_, current_values_, target, last_error_, snapshot>>
          ELSE LET r == load_file(read_file_with_retry(f, file_read_retry_config_),
                                  current_values_, bindings_, target, last_error_)
               IN
               /\ current_values_' = r.current_values
               /\ target' = r.target
               /\ last_error_' = r.last_error
               /\ file_cache_' = [last_modify_time |-> current_modify_time,
                                  last_access |-> now, file_exists |-> TRUE]
               /\ snapshot' = [snapshot EXCEPT ![t] = r.updated /\ on_change_callback_]
    /\ apc' = [apc EXCEPT ![t] = "u_unlock"]
    /\ UNCHANGED <<mtx_, bindings_, file_watcher_, file_watcher_config_,
                   file_read_retry_config_, file_changed_, on_change_callback_,
                   in_callback_, now, inotify_pending, lockRest>>

\* a variant whose lock_guard spans the invocation of the callback
update_unlock_late(t) ==
    /\ apc[t] = "u_unlock"
    /\ apc' = [apc EXCEPT ![t] = IF snapshot[t] THEN "invoke" ELSE "idle"]
    /\ mtx_' = IF snapshot[t] THEN mtx_ ELSE "free"
    /\ UNCHANGED <<snapshot, paramsVars, envVars, lockRest>>

\* the end of the locked scope: mtx_ is released, then `if (callback_to_invoke)`
update_unlock(t) ==
    /\ apc[t] = "u_unlock"
    /\ mtx_' = "free"
    /\ apc' = [apc EXCEPT ![t] = IF snapshot[t] THEN "invoke" ELSE "idle"]
    /\ UNCHANGED <<snapshot, paramsVars, envVars, lockRest>>

\* in_callback_.store(true); callback_to_invoke() starts on this thread
invoke_callback(t) ==
    /\ apc[t] = "invoke"
    /\ in_callback_' = TRUE
    /\ apc' = [apc EXCEPT ![t] = "in_callback"]
    /\ UNCHANGED <<file_cache_, bindings_, target, current_values_, file_watcher_,
                   file_watcher_config_, file_read_retry_config_, file_changed_,
                   last_error_, on_change_callback_>>
    /\ UNCHANGED <<mtx_, snapshot, envVars, lockRest>>

\* the callback calls get(), has(), last_error() or on_change() of the Params
callback_calls(t) ==
    /\ apc[t] = "in_callback"
    /\ apc' = [apc EXCEPT ![t] = "cb_lock"]
    /\ UNCHANGED <<mtx_, snapshot, paramsVars, envVars, lockRest>>

\* the lock_guard of that call, and the read under it
callback_call_lock(t) ==
    /\ apc[t] = "cb_lock"
    /\ mtx_ = "free"
    /\ mtx_' = t
    /\ apc' = [apc EXCEPT ![t] = "cb_locked"]
    /\ UNCHANGED <<snapshot, paramsVars, envVars, lockRest>>

callback_call_unlock(t) ==
    /\ apc[t] = "cb_locked"
    /\ mtx_' = "free"
    /\ apc' = [apc EXCEPT ![t] = "in_callback"]
    /\ UNCHANGED <<snapshot, paramsVars, envVars, lockRest>>

\* the callback returns or throws: in_callback_.store(false), update() returns
callback_returns(t) ==
    /\ apc[t] = "in_callback"
    /\ in_callback_' = FALSE
    /\ apc' = [apc EXCEPT ![t] = "idle"]
    /\ UNCHANGED <<file_cache_, bindings_, target, current_values_, file_watcher_,
                   file_watcher_config_, file_read_retry_config_, file_changed_,
                   last_error_, on_change_callback_>>
    /\ UNCHANGED <<mtx_, snapshot, envVars, lockRest>>

\* on_change(callback) from the top level
on_change_call(t) ==
    /\ apc[t] = "idle"
    /\ apc' = [apc EXCEPT ![t] = "oc_lock"]
    /\ UNCHANGED <<mtx_, snapshot, paramsVars, envVars, lockRest>>

on_change_lock(t) ==
    /\ apc[t] = "oc_lock"
    /\ mtx_ = "free"
    /\ mtx_' = t
    /\ on_change_callback_' = TRUE
    /\ apc' = [apc EXCEPT ![t] = "oc_locked"]
    /\ UNCHANGED <<file_cache_, bindings_, target, current_values_, file_watcher_,
                   file_watcher_config_, file_read_retry_config_, file_changed_,
                   last_error_, in_callback_>>
    /\ UNCHANGED <<snapshot, envVars, lockRest>>

on_change_unlock(t) ==
    /\ apc[t] = "oc_locked"
    /\ mtx_' = "free"
    /\ apc' = [apc EXCEPT ![t] = "idle"]
    /\ UNCHANGED <<snapshot, paramsVars, envVars, lockRest>>

\* invalidate_cache(), also as the second call of params_reset():
\* if (in_callback_.load()) return; no lock is taken
invalidate_cache_call(t) ==
    /\ apc[t] = "idle"
    /\ apc' = [apc EXCEPT ![t] = IF in_callback_ THEN "idle" ELSE "ic_write"]
    /\ UNCHANGED <<mtx_, snapshot, paramsVars, envVars, lockRest>>

\* file_cache_ = {...}; current_values_.clear().  While another thread is in
\* its block under mtx_ the writes race with that thread's accesses: each of
\* them may or may not be what the objects hold afterwards
invalidate_cache_write(t) ==
    /\ apc[t] = "ic_write"
    /\ IF mtx_ \notin {"free", t}
       THEN /\ file_cache_' \in {EmptyFileCache, file_cache_}
            /\ current_values_' \in {EmptyMap, current_values_}
       ELSE /\ file_cache_' = EmptyFileCache
            /\ current_values_' = EmptyMap
    /\ apc' = [apc EXCEPT ![t] = "idle"]
    /\ UNCHANGED <<bindings_, target, file_watcher_, file_watcher_config_,
                   file_read_retry_config_, file_changed_, last_error_,
                   on_change_callback_, in_callback_>>
    /\ UNCHANGED <<mtx_, snapshot, envVars, lockRest>>

NextLock ==
    \/ \E t \in AppThreads :
        \/ update_guard(t)
        \/ update_lock(t)
        \/ update_block(t)
        \/ update_unlock(t)
        \/ invoke_callback(t)
        \/ callback_calls(t)
        \/ callback_call_lock(t)
        \/ callback_call_unlock(t)
        \/ callback_returns(t)
        \/ on_change_call(t)
        \/ on_change_lock(t)
        \/ on_change_unlock(t)
        \/ invalidate_cache_call(t)
        \/ invalidate_cache_write(t)
    \/ \E content \in OpsContents : WriteFile(content)
    \/ Tick

LockSpec == Init /\ [][NextLock]_vars

\* LockLive: a thread that holds mtx_ goes on to release it, and a thread
\* that asks for mtx_ gets it when the mutex keeps being released.  The calls
\* the threads make are the application's and are not forced.
LockFairness ==
    \A t \in AppThreads :
        /\ WF_vars(update_block(t))
        /\ WF_vars(update_unlock(t))
        /\ WF_vars(callback_call_unlock(t))
        /\ WF_vars(on_change_unlock(t))
        /\ SF_vars(callback_call_lock(t))

LockLive == LockSpec /\ LockFairness

\* ------------------------------------------------------------------------
\* WatcherMoveSpec: a FileWatcher `other`, started by the application, and
\* the FileWatcher `this` that is move-constructed from it or move-assigned
\* to.  The thread function of the worker is a lambda that captured the
\* object start() was called on; start_native and start_polling are called
\* on `other` only, so that object is `other` throughout.
\* ------------------------------------------------------------------------
watcherMoveRest == <<envVars, paramsVars, threadVars, watcherVars, cvVars,
                     start_result, readerVars, bufferVars, einfo, poller,
                     tuner, call, lockVars, pm>>

\* the members the move operations hand from `other` to `this`
Transferred(f) == [o \in Objs |-> IF o = "this" THEN f["other"] ELSE FALSE]

\* number of join() calls counted in a behaviour
MaxJoins == 2

\* `this` was made from `other` by a move
WatcherMoved == fwm.moved # "no"

\* FileWatcher::start on `other`, not running
move_start(native_ok) ==
    /\ fwm.alive["other"] /\ ~WatcherMoved
    /\ fwm.stop.pc = "idle"
    /\ ~fwm.running_["other"] /\ fwm.worker = "none"
    /\ fwm.joins < MaxJoins
    /\ fwm' = [fwm EXCEPT !.running_["other"] = TRUE,
                          !.joinable["other"] = TRUE,
                          !.mode = IF native_ok THEN "native" ELSE "polling",
                          !.worker = "test",
                          !.pipe = FALSE, !.event = FALSE]
    /\ UNCHANGED watcherMoveRest

\* FileWatcher this; -- the target of a move assignment
FileWatcher_default_ctor ==
    /\ ~fwm.alive["this"] /\ ~WatcherMoved
    /\ fwm' = [fwm EXCEPT !.alive["this"] = TRUE, !.impl_["this"] = TRUE]
    /\ UNCHANGED watcherMoveRest

\* what both move operations do with the members
move_members(how) ==
    fwm' = [fwm EXCEPT !.alive["this"] = TRUE,
                       !.impl_ = Transferred(fwm.impl_),
                       !.running_ = Transferred(fwm.running_),
                       !.change_detected_ = Transferred(fwm.change_detected_),
                       !.joinable = Transferred(fwm.joinable),
                       !.moved = how]

\* FileWatcher this(std::move(other))
FileWatcher_move_ctor ==
    /\ fwm.alive["other"] /\ ~fwm.alive["this"] /\ ~WatcherMoved
    /\ fwm.stop.pc = "idle"
    /\ move_members("ctor")
    /\ UNCHANGED watcherMoveRest

\* this = std::move(other): stop() on `this`, which is not running, returns
\* at once
FileWatcher_move_assign ==
    /\ fwm.alive["other"] /\ fwm.alive["this"] /\ ~WatcherMoved
    /\ fwm.stop.pc = "idle"
    /\ ~fwm.running_["this"]
    /\ move_members("assign")
    /\ UNCHANGED watcherMoveRest

\* stop() on object o: if (!running_.load()) return; running_.store(false)
move_stop(o) ==
    /\ fwm.alive[o]
    /\ fwm.stop.pc = "idle"
    /\ fwm.running_[o]
    /\ fwm' = [fwm EXCEPT !.running_[o] = FALSE,
                          !.stop = [obj |-> o, pc |-> "flag"]]
    /\ UNCHANGED watcherMoveRest

\* { lock_guard lock(cv_mtx_); change_detected_.store(true); } cv_.notify_all()
move_stop_flag ==
    /\ fwm.stop.pc = "flag"
    /\ fwm' = [fwm EXCEPT !.change_detected_[fwm.stop.obj] = TRUE,
                          !.stop.pc = "native"]
    /\ UNCHANGED watcherMoveRest

\* stop_native(): a byte into the pipe of the inotify worker
move_stop_native ==
    /\ fwm.stop.pc = "native"
    /\ fwm.impl_[fwm.stop.obj]
    /\ fwm' = [fwm EXCEPT !.pipe = (fwm.mode = "native"),
                          !.stop.pc = "join"]
    /\ UNCHANGED watcherMoveRest

\* if (watcher_thread_.joinable()) watcher_thread_.join();
move_stop_join ==
    /\ fwm.stop.pc = "join"
    /\ IF fwm.joinable[fwm.stop.obj]
       THEN /\ fwm.worker = "exited"
            /\ fwm' = [fwm EXCEPT !.joinable[fwm.stop.obj] = FALSE,
                                  !.worker = "none", !.mode = "none",
                                  !.joins = fwm.joins + 1,
                                  !.stop = [obj |-> "none", pc |-> "idle"]]
       ELSE fwm' = [fwm EXCEPT !.stop = [obj |-> "none", pc |-> "idle"]]
    /\ UNCHANGED watcherMoveRest

\* ~FileWatcher on an object that is not running: stop() returns at once and
\* the members are destroyed
FileWatcher_dtor(o) ==
    /\ fwm.alive[o]
    /\ fwm.stop.pc = "idle"
    /\ ~fwm.running_[o] /\ ~fwm.joinable[o]
    /\ WatcherMoved
    /\ fwm' = [fwm EXCEPT !.alive[o] = FALSE, !.impl_[o] = FALSE]
    /\ UNCHANGED watcherMoveRest

\* the worker's `while (running_.load())`, a read through the captured
\* pointer; the polling worker that goes on compares the modify-time and
\* notifies.  Once `other` is destroyed the pointer dangles and the read may
\* give anything
move_worker_test ==
    /\ fwm.worker = "test"
    /\ IF ~fwm.alive["other"]
       THEN \E w \in {"wait", "exited", "crashed"} : fwm' = [fwm EXCEPT !.worker = w]
       ELSE IF ~fwm.running_["other"]
       THEN fwm' = [fwm EXCEPT !.worker = "exited"]
       ELSE IF fwm.mode = "polling" /\ fwm.event
       THEN fwm' = [fwm EXCEPT !.worker = "wait", !.event = FALSE,
                               !.change_detected_["other"] = TRUE]
       ELSE fwm' = [fwm EXCEPT !.worker = "wait"]
    /\ UNCHANGED watcherMoveRest

\* the worker's wait ends.  The polling worker's wait_for returns.  The
\* inotify worker's poll() returns for the pipe (break) or for an event, and
\* then it reads impl_->inotify_fd through the captured pointer: with impl_
\* moved away that is a null dereference, whose outcome is open
move_worker_wake ==
    /\ fwm.worker = "wait"
    /\ IF fwm.mode = "polling"
       THEN fwm' = [fwm EXCEPT !.worker = "test"]
       ELSE /\ fwm.pipe \/ fwm.event
            /\ IF fwm.pipe
               THEN fwm' = [fwm EXCEPT !.worker = "exited"]
               ELSE IF fwm.alive["other"] /\ fwm.impl_["other"]
               THEN fwm' = [fwm EXCEPT !.worker = "test", !.event = FALSE,
                                       !.change_detected_["other"] = TRUE]
               ELSE \E w \in {"test", "crashed"} :
                        fwm' = [fwm EXCEPT !.worker = w, !.event = FALSE]
    /\ UNCHANGED watcherMoveRest

\* the editor saves the watched file
move_touch ==
    /\ ~fwm.event
    /\ fwm.worker \in {"test", "wait"}
    /\ fwm' = [fwm EXCEPT !.event = TRUE]
    /\ UNCHANGED watcherMoveRest

NextWatcherMove ==
    \/ \E native_ok \in BOOLEAN : move_start(native_ok)
    \/ FileWatcher_default_ctor
    \/ FileWatcher_move_ctor
    \/ FileWatcher_move_assign
    \/ \E o \in Objs : move_stop(o)
    \/ move_stop_flag
    \/ move_stop_native
    \/ move_stop_join
    \/ \E o \in Objs : FileWatcher_dtor(o)
    \/ move_worker_test
    \/ move_worker_wake
    \/ move_touch

WatcherMoveSpec == Init /\ [][NextWatcherMove]_vars

\* ------------------------------------------------------------------------
\* ParamsMoveSpec: a Params `other` and the Params `this` that is
\* move-constructed from it or move-assigned to.  A Params holds its
\* FileWatcher by unique_ptr, so a move hands over the pointer and the
\* watcher object, its worker and its callback stay as they are.
\* ------------------------------------------------------------------------
paramsMoveRest == <<envVars, paramsVars, threadVars, watcherVars, cvVars,
                    start_result, readerVars, bufferVars, einfo, poller,
                    tuner, call, lockVars, fwm>>

ParamsMoved == pm.moved # "no"

\* no watcher is held
NoWatcher(w, o) ==
    [w EXCEPT !.file_watcher_[o] = FALSE, !.running_[o] = FALSE,
              !.captured[o] = "none", !.event[o] = FALSE]

\* Params this(path) -- the target of a move assignment
Params_ctor ==
    /\ ~pm.alive["this"] /\ ~ParamsMoved /\ ~pm.crashed
    /\ pm' = [pm EXCEPT !.alive["this"] = TRUE]
    /\ UNCHANGED paramsMoveRest

\* start_watching() on object o: a new FileWatcher, file_changed_ set for the
\* initial read, and start() with the lambda [this] { file_changed_.store(true); }
move_start_watching(o) ==
    /\ pm.alive[o] /\ ~pm.crashed
    /\ ~(pm.file_watcher_[o] /\ pm.running_[o])
    /\ pm' = [pm EXCEPT !.file_watcher_[o] = TRUE, !.running_[o] = TRUE,
                        !.captured[o] = o, !.event[o] = FALSE,
                        !.file_changed_[o] = TRUE]
    /\ UNCHANGED paramsMoveRest

\* stop_watching() on object o: the watcher is stopped and released
move_stop_watching(o) ==
    /\ pm.alive[o] /\ ~pm.crashed
    /\ pm.file_watcher_[o]
    /\ pm' = NoWatcher(pm, o)
    /\ UNCHANGED paramsMoveRest

\* set_file() on object o while it watches: the watcher is restarted with a
\* lambda that captures o
move_set_file(o) ==
    /\ pm.alive[o] /\ ~pm.crashed
    /\ pm.file_watcher_[o] /\ pm.running_[o]
    /\ pm.captured[o] # o \/ pm.event[o]
    /\ pm' = [pm EXCEPT !.captured[o] = o, !.event[o] = FALSE]
    /\ UNCHANGED paramsMoveRest

\* what both move operations do with the members: file_changed_ is copied,
\* the unique_ptr is moved
move_params(w, how) ==
    [w EXCEPT !.alive["this"] = TRUE,
              !.file_changed_["this"] = w.file_changed_["other"],
              !.file_watcher_ = Transferred(w.file_watcher_),
              !.running_ = Transferred(w.running_),
              !.captured = [o \in Objs |-> IF o = "this" THEN w.captured["other"]
                                          ELSE "none"],
              !.event = Transferred(w.event),
              !.moved = how]

\* Params this(std::move(other))
Params_move_ctor ==
    /\ pm.alive["other"] /\ ~pm.alive["this"] /\ ~ParamsMoved /\ ~pm.crashed
    /\ pm' = move_params(pm, "ctor")
    /\ UNCHANGED paramsMoveRest

\* this = std::move(other): stop_watching() on `this`, then the members
Params_move_assign ==
    /\ pm.alive["other"] /\ pm.alive["this"] /\ ~ParamsMoved /\ ~pm.crashed
    /\ pm' = move_params(NoWatcher(pm, "this"), "assign")
    /\ UNCHANGED paramsMoveRest

\* ~Params on object o: stop_watching(), the members are destroyed
Params_dtor(o) ==
    /\ pm.alive[o] /\ ParamsMoved /\ ~pm.crashed
    /\ pm' = [NoWatcher(pm, o) EXCEPT !.alive[o] = FALSE, !.file_changed_[o] = FALSE]
    /\ UNCHANGED paramsMoveRest

\* the worker of the watcher o holds notifies an event: the lambda stores
\* true into file_changed_ of the Params it captured.  Once that Params is
\* destroyed the pointer dangles: the store may be lost, land in the other
\* object or end the process
move_watch_callback(o) ==
    /\ pm.file_watcher_[o] /\ pm.running_[o] /\ pm.event[o] /\ ~pm.crashed
    /\ IF pm.alive[pm.captured[o]]
       THEN pm' = [pm EXCEPT !.event[o] = FALSE,
                             !.file_changed_[pm.captured[o]] = TRUE]
       ELSE \/ pm' = [pm EXCEPT !.event[o] = FALSE]
            \/ pm' = [pm EXCEPT !.event[o] = FALSE, !.file_changed_[o] = TRUE]
            \/ pm' = [pm EXCEPT !.event[o] = FALSE, !.crashed = TRUE]
    /\ UNCHANGED paramsMoveRest

\* poll() on object o with the flag set: the flag is cleared and update() runs
move_poll(o) ==
    /\ pm.alive[o] /\ ~pm.crashed
    /\ pm.file_changed_[o]
    /\ pm' = [pm EXCEPT !.file_changed_[o] = FALSE]
    /\ UNCHANGED paramsMoveRest

\* the editor saves the watched file: every running watcher gets the event
move_write ==
    /\ ~pm.crashed
    /\ \E o \in Objs : pm.running_[o] /\ ~pm.event[o]
    /\ pm' = [pm EXCEPT !.event = [o \in Objs |-> pm.running_[o]]]
    /\ UNCHANGED paramsMoveRest

NextParamsMove ==
    \/ Params_ctor
    \/ Params_move_ctor
    \/ Params_move_assign
    \/ \E o \in Objs :
        \/ move_start_watching(o)
        \/ move_stop_watching(o)
        \/ move_set_file(o)
        \/ Params_dtor(o)
        \/ move_watch_callback(o)
        \/ move_poll(o)
    \/ move_write

ParamsMoveSpec == Init /\ [][NextParamsMove]_vars

\* ------------------------------------------------------------------------
\* WatcherSpec: FileWatcher at the granularity of cv_mtx_ and cv_
\* ------------------------------------------------------------------------
\* the predicate both wait_for_change overloads hand to cv_
wait_predicate == change_detected_ \/ ~running_

\* the calling thread enters wait_for_change(timeout) or wait_for_change()
wait_for_change(w, is_timed) ==
    /\ wpc[w] = "idle"
    /\ wpc' = [wpc EXCEPT ![w] = "enter"]
    /\ timed' = [timed EXCEPT ![w] = is_timed]
    /\ timed_out' = [timed_out EXCEPT ![w] = FALSE]
    /\ result' = [result EXCEPT ![w] = "none"]
    /\ consumed_event' = [consumed_event EXCEPT ![w] = FALSE]
    /\ UNCHANGED <<running_, change_detected_, mode, last_modify_time,
                   inotify_pending, cv_mtx_, cv_waiters, pipe_signalled,
                   in_start, event_pending>>
    /\ UNCHANGED otherVars
    /\ UNCHANGED auxVars

\* with cv_mtx_ held: the flag test of the timed overload, then the wait on
\* cv_ up to its predicate; a true predicate (or an elapsed timeout) ends the
\* wait and the tail of wait_for_change consumes the flag and returns, a false
\* one leaves the thread about to block, the mutex still held
wfc_locked(w) ==
    IF wait_predicate \/ timed_out[w]
    THEN /\ change_detected_' = FALSE
         /\ event_pending' = IF change_detected_ THEN FALSE ELSE event_pending
         /\ consumed_event' = [consumed_event EXCEPT ![w] = change_detected_ /\ event_pending]
         /\ result' = [result EXCEPT ![w] =
                          IF ~timed[w] THEN "void"
                          ELSE IF wait_predicate /\ change_detected_ THEN "true"
                          ELSE "false"]
         /\ wpc' = [wpc EXCEPT ![w] = "idle"]
         /\ UNCHANGED cv_mtx_
    ELSE /\ cv_mtx_' = w
         /\ wpc' = [wpc EXCEPT ![w] = "block"]
         /\ UNCHANGED <<change_detected_, event_pending, consumed_event, result>>

wfc_enter(w) ==
    /\ wpc[w] = "enter"
    /\ cv_mtx_ = "free"
    /\ wfc_locked(w)
    /\ UNCHANGED <<running_, mode, last_modify_time, inotify_pending,
                   cv_waiters, timed, timed_out, pipe_signalled, in_start>>
    /\ UNCHANGED otherVars
    /\ UNCHANGED auxVars

\* cv_.wait: the mutex is released and the thread blocks, atomically
wfc_block(w) ==
    /\ wpc[w] = "block"
    /\ cv_mtx_ = w
    /\ cv_mtx_' = "free"
    /\ cv_waiters' = cv_waiters \cup {w}
    /\ wpc' = [wpc EXCEPT ![w] = "waiting"]
    /\ UNCHANGED <<running_, change_detected_, mode, last_modify_time,
                   inotify_pending, timed, timed_out, result, pipe_signalled,
                   in_start, event_pending, consumed_event>>
    /\ UNCHANGED otherVars
    /\ UNCHANGED auxVars

\* the blocked thread was notified
wfc_notified(w) ==
    /\ wpc[w] = "waiting"
    /\ w \notin cv_waiters
    /\ wpc' = [wpc EXCEPT ![w] = "relock"]
    /\ UNCHANGED <<running_, change_detected_, mode, last_modify_time,
                   inotify_pending, cv_mtx_, cv_waiters, timed, timed_out,
                   result, pipe_signalled, in_start, event_pending,
                   consumed_event>>
    /\ UNCHANGED otherVars
    /\ UNCHANGED auxVars

\* a variant of the wait without a timeout: the thread stays blocked
wfc_timeout_never(w) ==
    /\ wpc[w] = "waiting"
    /\ timed[w]
    /\ UNCHANGED vars

\* the timeout of wait_for elapses
wfc_timeout(w) ==
    /\ wpc[w] = "waiting"
    /\ timed[w]
    /\ cv_waiters' = cv_waiters \ {w}
    /\ timed_out' = [timed_out EXCEPT ![w] = TRUE]
    /\ wpc' = [wpc EXCEPT ![w] = "relock"]
    /\ UNCHANGED <<running_, change_detected_, mode, last_modify_time,
                   inotify_pending, cv_mtx_, timed, result, pipe_signalled,
                   in_start, event_pending, consumed_event>>
    /\ UNCHANGED otherVars
    /\ UNCHANGED auxVars

\* a spurious wake-up of the condition variable
wfc_spurious(w) ==
    /\ wpc[w] = "waiting"
    /\ w \in cv_waiters
    /\ cv_waiters' = cv_waiters \ {w}
    /\ wpc' = [wpc EXCEPT ![w] = "relock"]
    /\ UNCHANGED <<running_, change_detected_, mode, last_modify_time,
                   inotify_pending, cv_mtx_, timed, timed_out, result,
                   pipe_signalled, in_start, event_pending, consumed_event>>
    /\ UNCHANGED otherVars
    /\ UNCHANGED auxVars

\* the woken thread takes cv_mtx_ again and tests the predicate
wfc_relock(w) ==
    /\ wpc[w] = "relock"
    /\ cv_mtx_ = "free"
    /\ wfc_locked(w)
    /\ UNCHANGED <<running_, mode, last_modify_time, inotify_pending,
                   cv_waiters, timed, timed_out, pipe_signalled, in_start>>
    /\ UNCHANGED otherVars
    /\ UNCHANGED auxVars

\* ---- FileWatcher::start ----
\* if (running_.load()) stop();
fw_start(c) ==
    /\ wpc[c] = "idle"
    /\ in_start' = running_
    /\ wpc' = [wpc EXCEPT ![c] = IF running_ THEN "stop_check" ELSE "start_set"]
    /\ UNCHANGED <<running_, change_detected_, mode, last_modify_time,
                   inotify_pending, cv_mtx_, cv_waiters, timed, timed_out,
                   result, pipe_signalled, event_pending, consumed_event>>
    /\ UNCHANGED otherVars
    /\ UNCHANGED auxVars

\* file_path_, callback_, running_.store(true)
start_set(c) ==
    /\ wpc[c] = "start_set"
    /\ running_' = TRUE
    /\ in_start' = FALSE
    /\ wpc' = [wpc EXCEPT ![c] = "start_native"]
    /\ UNCHANGED <<change_detected_, mode, last_modify_time, inotify_pending,
                   cv_mtx_, cv_waiters, timed, timed_out, result,
                   pipe_signalled, event_pending, consumed_event>>
    /\ UNCHANGED otherVars
    /\ UNCHANGED auxVars

\* start_native: the inotify worker, or start_polling when a set-up step fails
start_native(c, native_ok) ==
    /\ wpc[c] = "start_native"
    /\ wpc[Worker] = "none"
    /\ mode' = IF native_ok THEN "native" ELSE "polling"
    /\ last_modify_time' = file_time_min
    /\ pipe_signalled' = FALSE
    /\ inotify_pending' = FALSE
    /\ timed_out' = [timed_out EXCEPT ![Worker] = FALSE]
    /\ wpc' = [wpc EXCEPT ![c] = "idle",
                          ![Worker] = IF native_ok THEN "n_test" ELSE "wp_test"]
    /\ start_result' = "true"
    /\ UNCHANGED <<running_, change_detected_, cv_mtx_, cv_waiters, timed,
                   result, in_start, event_pending, consumed_event>>
    /\ UNCHANGED otherVars
    /\ UNCHANGED <<readerVars, bufferVars, extVars>>

\* the positions of a thread inside FileWatcher::stop
StopPcs == {"stop_check", "stop_store", "stop_flag", "stop_notify",
            "stop_native", "stop_join"}

\* ---- FileWatcher::stop ----
fw_stop(c) ==
    /\ wpc[c] = "idle"
    /\ in_start' = IF c = Controller THEN FALSE ELSE in_start
    /\ wpc' = [wpc EXCEPT ![c] = "stop_check"]
    /\ UNCHANGED <<running_, change_detected_, mode, last_modify_time,
                   inotify_pending, cv_mtx_, cv_waiters, timed, timed_out,
                   result, pipe_signalled, event_pending, consumed_event>>
    /\ UNCHANGED otherVars
    /\ UNCHANGED auxVars

\* if (!running_.load()) return;
stop_check(c) ==
    /\ wpc[c] = "stop_check"
    /\ wpc' = [wpc EXCEPT ![c] = IF running_ THEN "stop_store"
                                 ELSE IF in_start /\ c = Controller THEN "start_set"
                                 ELSE "idle"]
    /\ UNCHANGED <<running_, change_detected_, mode, last_modify_time,
                   inotify_pending, cv_mtx_, cv_waiters, timed, timed_out,
                   result, pipe_signalled, in_start, event_pending,
                   consumed_event>>
    /\ UNCHANGED otherVars
    /\ UNCHANGED auxVars

\* running_.store(false)
stop_store(c) ==
    /\ wpc[c] = "stop_store"
    /\ running_' = FALSE
    /\ wpc' = [wpc EXCEPT ![c] = "stop_flag"]
    /\ UNCHANGED <<change_detected_, mode, last_modify_time, inotify_pending,
                   cv_mtx_, cv_waiters, timed, timed_out, result,
                   pipe_signalled, in_start, event_pending, consumed_event>>
    /\ UNCHANGED otherVars
    /\ UNCHANGED auxVars

\* a variant that stores the flag without taking cv_mtx_
stop_flag_unlocked(c) ==
    /\ wpc[c] = "stop_flag"
    /\ change_detected_' = TRUE
    /\ wpc' = [wpc EXCEPT ![c] = "stop_notify"]
    /\ UNCHANGED <<running_, mode, last_modify_time, inotify_pending,
                   cv_mtx_, cv_waiters, timed, timed_out, result,
                   pipe_signalled, in_start, event_pending, consumed_event>>
    /\ UNCHANGED otherVars
    /\ UNCHANGED auxVars

\* { lock_guard lock(cv_mtx_); change_detected_.store(true); }
stop_flag(c) ==
    /\ wpc[c] = "stop_flag"
    /\ cv_mtx_ = "free"
    /\ change_detected_' = TRUE
    /\ wpc' = [wpc EXCEPT ![c] = "stop_notify"]
    /\ UNCHANGED <<running_, mode, last_modify_time, inotify_pending,
                   cv_mtx_, cv_waiters, timed, timed_out, result,
                   pipe_signalled, in_start, event_pending, consumed_event>>
    /\ UNCHANGED otherVars
    /\ UNCHANGED auxVars

\* cv_.notify_all()
stop_notify(c) ==
    /\ wpc[c] = "stop_notify"
    /\ cv_waiters' = {}
    /\ wpc' = [wpc EXCEPT ![c] = "stop_native"]
    /\ UNCHANGED <<running_, change_detected_, mode, last_modify_time,
                   inotify_pending, cv_mtx_, timed, timed_out, result,
                   pipe_signalled, in_start, event_pending, consumed_event>>
    /\ UNCHANGED otherVars
    /\ UNCHANGED auxVars

\* a variant that releases the descriptors without writing to the pipe
stop_native_silent(c) ==
    /\ wpc[c] = "stop_native"
    /\ inotify_pending' = FALSE
    /\ wpc' = [wpc EXCEPT ![c] = "stop_join"]
    /\ UNCHANGED <<running_, change_detected_, mode, last_modify_time,
                   cv_mtx_, cv_waiters, timed, timed_out, result, in_start,
                   pipe_signalled, event_pending, consumed_event>>
    /\ UNCHANGED otherVars
    /\ UNCHANGED auxVars

\* stop_native: a byte into the worker's pipe, the watch and the descriptors
\* are released
stop_native(c) ==
    /\ wpc[c] = "stop_native"
    /\ pipe_signalled' = (mode = "native")
    /\ inotify_pending' = FALSE
    /\ wpc' = [wpc EXCEPT ![c] = "stop_join"]
    /\ UNCHANGED <<running_, change_detected_, mode, last_modify_time,
                   cv_mtx_, cv_waiters, timed, timed_out, result, in_start,
                   event_pending, consumed_event>>
    /\ UNCHANGED otherVars
    /\ UNCHANGED auxVars

\* if (watcher_thread_.joinable()) watcher_thread_.join();
stop_join(c) ==
    /\ wpc[c] = "stop_join"
    /\ wpc[Worker] \in {"none", "exited"}
    /\ mode' = "none"
    /\ wpc' = [wpc EXCEPT ![c] = IF in_start /\ c = Controller THEN "start_set"
                                 ELSE "idle",
                          ![Worker] = "none"]
    /\ UNCHANGED <<running_, change_detected_, last_modify_time,
                   inotify_pending, cv_mtx_, cv_waiters, timed, timed_out,
                   result, pipe_signalled, in_start, event_pending,
                   consumed_event>>
    /\ UNCHANGED otherVars
    /\ UNCHANGED auxVars

\* ---- FileWatcher::notify_change, on the worker ----
\* { lock_guard lock(cv_mtx_); change_detected_.store(true); }
nc_flag(t) ==
    /\ wpc[t] = "nc_flag"
    /\ cv_mtx_ = "free"
    /\ change_detected_' = TRUE
    /\ event_pending' = TRUE
    /\ wpc' = [wpc EXCEPT ![t] = "nc_signal"]
    /\ UNCHANGED <<running_, mode, last_modify_time, inotify_pending,
                   cv_mtx_, cv_waiters, timed, timed_out, result,
                   pipe_signalled, in_start, consumed_event>>
    /\ UNCHANGED otherVars
    /\ UNCHANGED auxVars

\* cv_.notify_all()
nc_signal(t) ==
    /\ wpc[t] = "nc_signal"
    /\ cv_waiters' = {}
    /\ wpc' = [wpc EXCEPT ![t] = "nc_callback"]
    /\ UNCHANGED <<running_, change_detected_, mode, last_modify_time,
                   inotify_pending, cv_mtx_, timed, timed_out, result,
                   pipe_signalled, in_start, event_pending, consumed_event>>
    /\ UNCHANGED otherVars
    /\ UNCHANGED auxVars

\* if (callback_) callback_(); then back into the worker's loop
nc_callback(t) ==
    /\ wpc[t] = "nc_callback"
    /\ wpc' = [wpc EXCEPT ![t] = IF mode = "polling" THEN "wp_wait" ELSE "n_test"]
    /\ UNCHANGED <<running_, change_detected_, mode, last_modify_time,
                   inotify_pending, cv_mtx_, cv_waiters, timed, timed_out,
                   result, pipe_signalled, in_start, event_pending,
                   consumed_event>>
    /\ UNCHANGED otherVars
    /\ UNCHANGED auxVars

\* ---- FileWatcher::watch_polling ----
\* while (running_.load())
wp_test(t) ==
    /\ wpc[t] = "wp_test"
    /\ wpc' = [wpc EXCEPT ![t] = IF running_ THEN "wp_stat" ELSE "exited"]
    /\ UNCHANGED <<running_, change_detected_, mode, last_modify_time,
                   inotify_pending, cv_mtx_, cv_waiters, timed, timed_out,
                   result, pipe_signalled, in_start, event_pending,
                   consumed_event>>
    /\ UNCHANGED otherVars
    /\ UNCHANGED auxVars

\* a variant that records the new modify-time without notifying
wp_stat_quiet(t) ==
    /\ wpc[t] = "wp_stat"
    /\ last_modify_time' = IF file.exists THEN file.mtime ELSE last_modify_time
    /\ wpc' = [wpc EXCEPT ![t] = "wp_wait"]
    /\ UNCHANGED <<running_, change_detected_, mode, inotify_pending,
                   cv_mtx_, cv_waiters, timed, timed_out, result,
                   pipe_signalled, in_start, event_pending, consumed_event>>
    /\ UNCHANGED otherVars
    /\ UNCHANGED auxVars

\* last_write_time against last_modify_time
wp_stat(t) ==
    /\ wpc[t] = "wp_stat"
    /\ IF file.exists /\ file.mtime # last_modify_time
       THEN /\ last_modify_time' = file.mtime
            /\ wpc' = [wpc EXCEPT ![t] = "nc_flag"]
       ELSE /\ wpc' = [wpc EXCEPT ![t] = "wp_wait"]
            /\ UNCHANGED last_modify_time
    /\ UNCHANGED <<running_, change_detected_, mode, inotify_pending,
                   cv_mtx_, cv_waiters, timed, timed_out, result,
                   pipe_signalled, in_start, event_pending, consumed_event>>
    /\ UNCHANGED otherVars
    /\ UNCHANGED auxVars

\* with cv_mtx_ held, cv_.wait_for(lock, poll_interval, !running_) up to its
\* predicate
wp_locked(t) ==
    IF ~running_ \/ timed_out[t]
    THEN /\ wpc' = [wpc EXCEPT ![t] = "wp_test"]
         /\ timed_out' = [timed_out EXCEPT ![t] = FALSE]
         /\ UNCHANGED cv_mtx_
    ELSE /\ cv_mtx_' = t
         /\ wpc' = [wpc EXCEPT ![t] = "wp_block"]
         /\ UNCHANGED timed_out

wp_wait(t) ==
    /\ wpc[t] = "wp_wait"
    /\ cv_mtx_ = "free"
    /\ wp_locked(t)
    /\ UNCHANGED <<running_, change_detected_, mode, last_modify_time,
                   inotify_pending, cv_waiters, timed, result,
                   pipe_signalled, in_start, event_pending, consumed_event>>
    /\ UNCHANGED otherVars
    /\ UNCHANGED auxVars

wp_block(t) ==
    /\ wpc[t] = "wp_block"
    /\ cv_mtx_ = t
    /\ cv_mtx_' = "free"
    /\ cv_waiters' = cv_waiters \cup {t}
    /\ wpc' = [wpc EXCEPT ![t] = "wp_waiting"]
    /\ UNCHANGED <<running_, change_detected_, mode, last_modify_time,
                   inotify_pending, timed, timed_out, result, pipe_signalled,
                   in_start, event_pending, consumed_event>>
    /\ UNCHANGED otherVars
    /\ UNCHANGED auxVars

\* the worker is notified, or poll_interval elapses
wp_wake(t, by_timeout) ==
    /\ wpc[t] = "wp_waiting"
    /\ by_timeout \/ t \notin cv_waiters
    /\ cv_waiters' = cv_waiters \ {t}
    /\ timed_out' = [timed_out EXCEPT ![t] = by_timeout]
    /\ wpc' = [wpc EXCEPT ![t] = "wp_relock"]
    /\ UNCHANGED <<running_, change_detected_, mode, last_modify_time,
                   inotify_pending, cv_mtx_, timed, result, pipe_signalled,
                   in_start, event_pending, consumed_event>>
    /\ UNCHANGED otherVars
    /\ UNCHANGED auxVars

wp_relock(t) ==
    /\ wpc[t] = "wp_relock"
    /\ cv_mtx_ = "free"
    /\ wp_locked(t)
    /\ UNCHANGED <<running_, change_detected_, mode, last_modify_time,
                   inotify_pending, cv_waiters, timed, result,
                   pipe_signalled, in_start, event_pending, consumed_event>>
    /\ UNCHANGED otherVars
    /\ UNCHANGED auxVars

\* ---- the inotify worker of start_native ----
\* while (running_.load())
n_test(t) ==
    /\ wpc[t] = "n_test"
    /\ wpc' = [wpc EXCEPT ![t] = IF running_ THEN "n_poll" ELSE "exited"]
    /\ UNCHANGED <<running_, change_detected_, mode, last_modify_time,
                   inotify_pending, cv_mtx_, cv_waiters, timed, timed_out,
                   result, pipe_signalled, in_start, event_pending,
                   consumed_event>>
    /\ UNCHANGED otherVars
    /\ UNCHANGED auxVars

\* poll() returns for the pipe (break) or for an event of the watched name
n_poll(t) ==
    /\ wpc[t] = "n_poll"
    /\ pipe_signalled \/ inotify_pending
    /\ IF pipe_signalled
       THEN /\ wpc' = [wpc EXCEPT ![t] = "exited"]
            /\ UNCHANGED inotify_pending
       ELSE /\ inotify_pending' = FALSE
            /\ wpc' = [wpc EXCEPT ![t] = "nc_flag"]
    /\ UNCHANGED <<running_, change_detected_, mode, last_modify_time,
                   cv_mtx_, cv_waiters, timed, timed_out, result,
                   pipe_signalled, in_start, event_pending, consumed_event>>
    /\ UNCHANGED otherVars
    /\ UNCHANGED auxVars

\* poll() fails with an errno other than EINTR, or the read of the inotify
\* descriptor fails with one other than EAGAIN: `break`, the thread function
\* returns; running_ is not touched
n_poll_fails(t) ==
    /\ wpc[t] = "n_poll"
    /\ wpc' = [wpc EXCEPT ![t] = "exited"]
    /\ UNCHANGED <<running_, change_detected_, mode, last_modify_time,
                   inotify_pending, cv_mtx_, cv_waiters, timed, timed_out,
                   result, pipe_signalled, in_start, event_pending,
                   consumed_event>>
    /\ UNCHANGED otherVars
    /\ UNCHANGED auxVars

\* the editor saves the watched file
Touch ==
    /\ fs_clock < MaxWrites
    /\ fs_clock' = fs_clock + 1
    /\ file' = [exists |-> TRUE, readable |-> TRUE, lines |-> <<CommentLine>>,
                mtime |-> fs_clock + 1]
    /\ inotify_pending' = IF running_ /\ mode = "native" THEN TRUE ELSE inotify_pending
    /\ UNCHANGED <<now, paramsVars, threadVars>>
    /\ UNCHANGED <<running_, change_detected_, mode, last_modify_time, cvVars>>
    /\ UNCHANGED auxVars

WatcherNext ==
    \/ \E w \in Waiters :
        \/ \E is_timed \in BOOLEAN : wait_for_change(w, is_timed)
        \/ wfc_enter(w)
        \/ wfc_block(w)
        \/ wfc_notified(w)
        \/ wfc_timeout(w)
        \/ wfc_spurious(w)
        \/ wfc_relock(w)
    \/ fw_start(Controller)
    \/ start_set(Controller)
    \/ \E native_ok \in BOOLEAN : start_native(Controller, native_ok)
    \/ fw_stop(Controller)
    \/ stop_check(Controller)
    \/ stop_store(Controller)
    \/ stop_flag(Controller)
    \/ stop_notify(Controller)
    \/ stop_native(Controller)
    \/ stop_join(Controller)
    \/ nc_flag(Worker)
    \/ nc_signal(Worker)
    \/ nc_callback(Worker)
    \/ wp_test(Worker)
    \/ wp_stat(Worker)
    \/ wp_wait(Worker)
    \/ wp_block(Worker)
    \/ \E by_timeout \in BOOLEAN : wp_wake(Worker, by_timeout)
    \/ wp_relock(Worker)
    \/ n_test(Worker)
    \/ n_poll(Worker)
    \/ n_poll_fails(Worker)
    \/ Touch

WatcherSpec == Init /\ [][WatcherNext]_vars

\* WatcherLive: WatcherSpec with the scheduling the threads get.  A thread
\* that can take a step takes it (the poll interval elapses, a thread holding
\* cv_mtx_ goes on to release it); a thread that asks for cv_mtx_ gets it when
\* the mutex keeps being released.  The waiters' calls are the application's
\* and are not forced.
WatcherFairness ==
    /\ WF_vars(stop_check(Controller))
    /\ WF_vars(stop_store(Controller))
    /\ SF_vars(stop_flag(Controller))
    /\ WF_vars(stop_notify(Controller))
    /\ WF_vars(stop_native(Controller))
    /\ WF_vars(stop_join(Controller))
    /\ SF_vars(nc_flag(Worker))
    /\ WF_vars(nc_signal(Worker))
    /\ WF_vars(nc_callback(Worker))
    /\ WF_vars(wp_test(Worker))
    /\ WF_vars(wp_stat(Worker))
    /\ SF_vars(wp_wait(Worker))
    /\ WF_vars(wp_block(Worker))
    /\ WF_vars(\E by_timeout \in BOOLEAN : wp_wake(Worker, by_timeout))
    /\ SF_vars(wp_relock(Worker))
    /\ WF_vars(n_test(Worker))
    /\ WF_vars(n_poll(Worker))
    /\ \A w \in Waiters : WF_vars(wfc_block(w))

WatcherLive == WatcherSpec /\ WatcherFairness


\* ------------------------------------------------------------------------
\* StopSpec: WatcherSpec with a second thread that calls stop() while the
\* controller's stop() is under way or the watcher runs; start() is called
\* while no other call is in progress
\* ------------------------------------------------------------------------
StopNext ==
    \/ \E w \in Waiters :
        \/ \E is_timed \in BOOLEAN : wait_for_change(w, is_timed)
        \/ wfc_enter(w)
        \/ wfc_block(w)
        \/ wfc_notified(w)
        \/ wfc_timeout(w)
        \/ wfc_spurious(w)
        \/ wfc_relock(w)
    \/ (wpc[Stopper] = "idle" /\ fw_start(Controller))
    \/ start_set(Controller)
    \/ \E native_ok \in BOOLEAN : start_native(Controller, native_ok)
    \/ fw_stop(Controller)
    \/ (wpc[Controller] \in {"idle"} \cup StopPcs /\ ~in_start /\ fw_stop(Stopper))
    \/ \E c \in {Controller, Stopper} :
        \/ stop_check(c)
        \/ stop_store(c)
        \/ stop_flag(c)
        \/ stop_notify(c)
        \/ stop_native(c)
        \/ stop_join(c)
    \/ nc_flag(Worker)
    \/ nc_signal(Worker)
    \/ nc_callback(Worker)
    \/ wp_test(Worker)
    \/ wp_stat(Worker)
    \/ wp_wait(Worker)
    \/ wp_block(Worker)
    \/ \E by_timeout \in BOOLEAN : wp_wake(Worker, by_timeout)
    \/ wp_relock(Worker)
    \/ n_test(Worker)
    \/ n_poll(Worker)
    \/ n_poll_fails(Worker)
    \/ Touch

StopSpec == Init /\ [][StopNext]_vars

\* ------------------------------------------------------------------------
\* BufferSpec: the watcher configuration and the buffer of the
\* directory-change-record (ReadDirectoryChangesW) worker
\* ------------------------------------------------------------------------
\* configurations an application hands over; on_buffer_overflow tells whether
\* the callback is set
BufferConfigs ==
    [buffer_size : {1024, 4096, 8192}, max_buffer_size : {2048, 8192, 16384},
     auto_grow_buffer : BOOLEAN, on_buffer_overflow : BOOLEAN]

Min(a, b) == IF a < b THEN a ELSE b

\* FileWatcher::FileWatcher(config), no worker yet
FileWatcher_ctor(config) ==
    /\ config_ = validate(config)
    /\ buffer = 0
    /\ current_buffer_size = 0
    /\ overflow_calls = <<>>
    /\ overflow_signals = 0

BufferInit ==
    /\ InitEnv /\ InitParams /\ InitThreads /\ InitWatcher /\ InitCv
    /\ start_result = "none"
    /\ reader = NoRead
    /\ InitExt
    /\ \E config \in BufferConfigs : FileWatcher_ctor(config)

\* FileWatcher::set_config
FileWatcher_set_config(config) ==
    /\ config_' = IF ~running_ THEN validate(config) ELSE config_
    /\ UNCHANGED <<buffer, current_buffer_size, overflow_calls, overflow_signals>>
    /\ UNCHANGED <<start_result, readerVars, extVars, envVars, paramsVars, threadVars,
                   watcherVars, cvVars>>

\* FileWatcher::start with the directory-change backend: a running watcher is
\* stopped first; start_native stores the buffer size and creates the worker,
\* which allocates its buffer, or falls back to start_polling when the
\* directory cannot be opened
win_start(native_ok) ==
    /\ running_' = TRUE
    /\ current_buffer_size' = config_.buffer_size
    /\ buffer' = IF native_ok THEN config_.buffer_size ELSE 0
    /\ mode' = IF native_ok THEN "native" ELSE "polling"
    /\ start_result' = "true"
    /\ UNCHANGED <<config_, overflow_calls, overflow_signals>>
    /\ UNCHANGED <<change_detected_, last_modify_time>>
    /\ UNCHANGED <<readerVars, extVars, envVars, paramsVars, threadVars, cvVars>>

\* the worker's ReadDirectoryChangesW fails with ERROR_NOTIFY_ENUM_DIR: the
\* overflow branch, then `continue`
win_overflow ==
    /\ running_ /\ buffer > 0
    /\ overflow_signals < MaxOverflows
    /\ overflow_signals' = overflow_signals + 1
    /\ IF config_.auto_grow_buffer
       THEN LET current_size == buffer
                new_size == Min(current_size * 2, config_.max_buffer_size) IN
            IF new_size > current_size
            THEN /\ buffer' = new_size
                 /\ current_buffer_size' = new_size
                 /\ overflow_calls' = IF config_.on_buffer_overflow
                                      THEN Append(overflow_calls, <<current_size, new_size>>)
                                      ELSE overflow_calls
            ELSE UNCHANGED <<buffer, current_buffer_size, overflow_calls>>
       ELSE UNCHANGED <<buffer, current_buffer_size, overflow_calls>>
    /\ UNCHANGED config_
    /\ UNCHANGED <<start_result, readerVars, extVars, envVars, paramsVars, threadVars,
                   watcherVars, cvVars>>

\* FileWatcher::stop with the directory-change backend: the worker is joined
win_stop ==
    /\ running_
    /\ running_' = FALSE
    /\ change_detected_' = TRUE
    /\ mode' = "none"
    /\ buffer' = 0
    /\ UNCHANGED <<config_, current_buffer_size, overflow_calls, overflow_signals>>
    /\ UNCHANGED last_modify_time
    /\ UNCHANGED <<start_result, readerVars, extVars, envVars, paramsVars, threadVars, cvVars>>

BufferNext ==
    \/ \E config \in BufferConfigs : FileWatcher_set_config(config)
    \/ \E config \in BufferConfigs : set_watcher_config(Main, config)
    \/ \E native_ok \in BOOLEAN : win_start(native_ok)
    \/ win_overflow
    \/ win_stop

BufferSpec == BufferInit /\ [][BufferNext]_vars

\* ------------------------------------------------------------------------
\* ReaderSpec: internal::read_file_with_retry over every policy and every
\* sequence of what its attempts find
\* ------------------------------------------------------------------------
\* policies: max_retries from -1 up, the default delay, multipliers 2.0 and 1.5
ReaderConfigs ==
    { [max_retries |-> m, retry_delay |-> DefaultRetryConfig.retry_delay,
       backoff_num |-> n, backoff_den |-> n - 1] : m \in -1..MaxRetries, n \in {2, 3} }

\* what one attempt finds: one of the failures of the loop body, or a content
ReadFailures == {"FileNotFound", "FileAccessDenied", "FileEmpty", "FileReadError"}
ReadContents == { <<CommentLine>>, <<[kind |-> "kv", key |-> "speed", value |-> <<"7">>]>> }
Observations ==
    { [error |-> e, content |-> <<>>] : e \in ReadFailures }
        \cup { [error |-> "None", content |-> c] : c \in ReadContents }

\* what the file system gives one attempt.  exists() returns false when the
\* status of the path cannot be determined, with the error code set; a file
\* that is there has a size or an error, at most one thing goes wrong
ObservedFile == [exists |-> TRUE, ec_exists |-> FALSE, ec_size |-> FALSE,
                 file_size |-> 1, opens |-> TRUE, read |-> "ok", content |-> <<>>]
RawObservations ==
    { [ObservedFile EXCEPT !.exists = FALSE],
      [ObservedFile EXCEPT !.exists = FALSE, !.ec_exists = TRUE],
      [ObservedFile EXCEPT !.ec_size = TRUE, !.file_size = 0],
      [ObservedFile EXCEPT !.file_size = 0],
      [ObservedFile EXCEPT !.opens = FALSE],
      [ObservedFile EXCEPT !.read = "throws"],
      [ObservedFile EXCEPT !.read = "bad"],
      ObservedFile }
        \cup { [ObservedFile EXCEPT !.content = c] : c \in ReadContents }

ReaderInit ==
    /\ InitEnv /\ InitParams /\ InitThreads /\ InitWatcher /\ InitCv
    /\ start_result = "none"
    /\ InitBuffer
    /\ InitExt
    /\ \E config \in ReaderConfigs, raw \in [1..(MaxRetries + 1) -> RawObservations] :
          reader = [config |-> config, raw |-> raw,
                    obs |-> [i \in 1..(MaxRetries + 1) |-> read_attempt(raw[i])],
                    done |-> FALSE, result |-> NoResult]

\* the call returns: the optional content and *error_out
read_call ==
    /\ ~reader.done
    /\ reader' = [reader EXCEPT !.done = TRUE,
                                !.result = read_loop(reader.obs, reader.config)]
    /\ UNCHANGED <<start_result, bufferVars, extVars, envVars, paramsVars, threadVars,
                   watcherVars, cvVars>>

ReaderNext == read_call

ReaderSpec == ReaderInit /\ [][ReaderNext]_vars

\* ------------------------------------------------------------------------
\* ErrorSpec: an ErrorInfo, default-constructed or constructed with a type,
\* and its conversion to bool
\* ------------------------------------------------------------------------
Messages == {"", "not found", "denied"}
Paths == {"", "params.txt"}
\* system_clock::now() at the construction
Timestamps == {1, 2}

ErrorInit ==
    /\ InitEnv /\ InitParams /\ InitThreads /\ InitWatcher /\ InitCv
    /\ start_result = "none"
    /\ reader = NoRead
    /\ InitBuffer
    /\ poller = NoPoller /\ tuner = InitTuner /\ call = NoCall
    /\ InitLock /\ InitMove
    /\ \/ einfo = NoErrorInfo
       \/ \E t \in ErrorTypes, msg \in Messages, path \in Paths, clock \in Timestamps :
             einfo = [arg |-> t, info |-> ErrorInfo_ctor(t, msg, path, clock),
                      as_bool |-> "none"]

\* static_cast<bool>(err), as in `if (err)`
operator_bool ==
    /\ einfo.as_bool = "none"
    /\ einfo' = [einfo EXCEPT !.as_bool = IF ErrorInfo_bool(einfo.info) THEN "true"
                                          ELSE "false"]
    /\ UNCHANGED <<start_result, readerVars, bufferVars, poller, tuner, call,
                   lockVars, moveVars>>
    /\ UNCHANGED <<envVars, paramsVars, threadVars, watcherVars, cvVars>>

ErrorNext == operator_bool

ErrorSpec == ErrorInit /\ [][ErrorNext]_vars

\* ------------------------------------------------------------------------
\* PollSpec: the loop of FileWatcher::watch_polling with its interval, one
\* iteration at a time
\* ------------------------------------------------------------------------
\* std::chrono::milliseconds poll_interval{50}
initial_poll_interval == 50
\* constexpr std::chrono::milliseconds min_interval{10}
min_interval == 10
\* constexpr std::chrono::milliseconds max_interval{500}
max_interval == 500
\* number of consecutive polls without a change the worker makes
MaxIdlePolls == 18

\* start() whose native set-up fails: start_polling creates the worker, which
\* initialises its locals
watch_polling_begin ==
    /\ ~running_
    /\ running_' = TRUE
    /\ mode' = "polling"
    /\ change_detected_' = FALSE
    /\ last_modify_time' = file_time_min
    /\ poller' = [poll_interval |-> initial_poll_interval, no_change_count |-> 0]
    /\ start_result' = "true"
    /\ UNCHANGED <<readerVars, bufferVars, einfo, tuner, call, lockVars, moveVars>>
    /\ UNCHANGED <<envVars, paramsVars, threadVars, cvVars>>

\* one iteration of the loop: the modify-time is compared, a change is
\* notified and resets the interval, a poll without a change counts and past
\* ten of them doubles the interval up to max_interval; then the wait of
\* poll_interval
watch_polling_round ==
    /\ running_ /\ mode = "polling"
    /\ IF file.exists /\ file.mtime # last_modify_time
       THEN /\ last_modify_time' = file.mtime
            /\ change_detected_' = TRUE
            /\ poller' = [poll_interval |-> min_interval, no_change_count |-> 0]
       ELSE /\ poller.no_change_count < MaxIdlePolls
            /\ LET count == poller.no_change_count + 1 IN
               poller' = [poll_interval |->
                              IF count > 10 /\ poller.poll_interval < max_interval
                              THEN Min(poller.poll_interval * 2, max_interval)
                              ELSE poller.poll_interval,
                          no_change_count |-> count]
            /\ UNCHANGED <<last_modify_time, change_detected_>>
    /\ UNCHANGED <<running_, mode>>
    /\ UNCHANGED <<start_result, readerVars, bufferVars, einfo, tuner, call,
                   lockVars, moveVars>>
    /\ UNCHANGED <<envVars, paramsVars, threadVars, cvVars>>

\* stop(): the worker leaves its loop and is joined
watch_polling_end ==
    /\ running_ /\ mode = "polling"
    /\ running_' = FALSE
    /\ mode' = "none"
    /\ change_detected_' = TRUE
    /\ UNCHANGED last_modify_time
    /\ UNCHANGED <<start_result, readerVars, bufferVars, extVars>>
    /\ UNCHANGED <<envVars, paramsVars, threadVars, cvVars>>

PollNext ==
    \/ watch_polling_begin
    \/ watch_polling_round
    \/ watch_polling_end
    \/ Touch

PollSpec == Init /\ [][PollNext]_vars

\* ------------------------------------------------------------------------
\* LiveTuner: try_get, get and get_timeout, called by one thread
\* ------------------------------------------------------------------------
\* the thread that calls the LiveTuner operations; the FileWatcher calls the
\* operations make are calls of this thread
Getter == "waiter"

\* a line that holds one value and nothing else
ValueLine(v) == [kind |-> "plain", key |-> "", value |-> v]

\* the contents an editor leaves in the single-value file: nothing, "7x", a
\* comment and "25", "7x" followed by "7"
TunerContents == { <<>>,
                   <<ValueLine(<<"7", "x">>)>>,
                   <<CommentLine, ValueLine(<<"2", "5">>)>>,
                   <<ValueLine(<<"7", "x">>), ValueLine(<<"7">>)>> }

\* LiveTuner::ensure_file_exists: a missing file is created with two comment
\* lines
LiveTuner_ensure_file_exists(f, clock) ==
    IF ~f.exists
    THEN [exists |-> TRUE, readable |-> TRUE, lines |-> <<CommentLine, CommentLine>>,
          mtime |-> clock + 1]
    ELSE f

\* the line loop of try_get and get: empty and comment lines are skipped, the
\* first line parse_value accepts ends the loop
RECURSIVE first_value(_, _)
first_value(lines, value) ==
    IF lines = <<>> THEN [found |-> FALSE, value |-> value]
    ELSE IF Head(lines).kind = "comment" THEN first_value(Tail(lines), value)
    ELSE LET r == parse_value(Head(lines).value, value) IN
         IF r.ok THEN [found |-> TRUE, value |-> r.value]
         ELSE first_value(Tail(lines), r.value)

\* read_file_with_retry and the line loop: [read, found, value, error]
read_value(f, config, value) ==
    LET r == read_file_with_retry(f, config) IN
    IF ~r.has_content
    THEN [read |-> FALSE, found |-> FALSE, value |-> value, error |-> r.error]
    ELSE LET p == first_value(r.content, value) IN
         [read |-> TRUE, found |-> p.found, value |-> p.value,
          error |-> IF p.found THEN "None" ELSE "ParseError"]

\* the file as a read sees it
Snapshot(f) == [mtime |-> f.mtime, lines |-> f.lines]

\* sleep_for(100ms) of the polling loops, and the longest wait_for_change of
\* get_timeout_event_driven
sleep_interval == 100
\* the timeouts handed to get_timeout
Timeouts == {0, TickMs, sleep_interval + 5 * TickMs}
\* the steady clock's last reading in a behaviour
MaxNow == 250
\* number of try_get, get and get_timeout calls in a behaviour
MaxCalls == 2

tunerRest == <<paramsVars, threadVars, start_result, readerVars, bufferVars,
               einfo, poller, lockVars, moveVars>>

\* the step is not a step of the FileWatcher
NoWatcherStep == UNCHANGED <<watcherVars, cvVars, inotify_pending>>

\* make_unique<FileWatcher>(config) and the entry of watcher->start(path, cb)
BeginStart(g) ==
    /\ wpc' = [wpc EXCEPT ![g] = "start_set"]
    /\ change_detected_' = FALSE
    /\ event_pending' = FALSE
    /\ mode' = "none"
    /\ last_modify_time' = file_time_min
    /\ pipe_signalled' = FALSE
    /\ in_start' = FALSE
    /\ UNCHANGED <<running_, cv_mtx_, cv_waiters, timed, timed_out, result,
                   consumed_event>>

\* the entry of watcher->wait_for_change(timeout)
BeginWait(g) ==
    /\ wpc' = [wpc EXCEPT ![g] = "enter"]
    /\ timed' = [timed EXCEPT ![g] = TRUE]
    /\ timed_out' = [timed_out EXCEPT ![g] = FALSE]
    /\ result' = [result EXCEPT ![g] = "none"]
    /\ consumed_event' = [consumed_event EXCEPT ![g] = FALSE]
    /\ UNCHANGED <<watcherVars, inotify_pending, cv_mtx_, cv_waiters,
                   pipe_signalled, in_start, event_pending>>

\* the entry of watcher->stop()
BeginStop(g) ==
    /\ wpc' = [wpc EXCEPT ![g] = "stop_check"]
    /\ UNCHANGED <<watcherVars, inotify_pending, cv_mtx_, cv_waiters, timed,
                   timed_out, result, pipe_signalled, in_start, event_pending,
                   consumed_event>>

\* ensure_file_exists(input_path)
EnsureFile ==
    /\ file' = LiveTuner_ensure_file_exists(file, fs_clock)
    /\ fs_clock' = IF file.exists THEN fs_clock ELSE fs_clock + 1

\* the frame of a call that begins: the caller's variable keeps its value
NewCall(op, p) ==
    [op |-> op, pc |-> p, value |-> call.value, ret |-> "none", done |-> "none",
     entry |-> call.value, outer |-> "none", now |-> 0, mtime |-> file_time_min,
     start_time |-> 0, timeout |-> 0, elapsed |-> 0, wait |-> 0,
     file_changed |-> FALSE, event_driven |-> tuner.use_event_driven_,
     stored |-> FALSE, src |-> <<>>, tg |-> "none", started |-> FALSE,
     n |-> call.n + 1]

\* the operation returns r
Returned(c, r) == [c EXCEPT !.op = "none", !.pc = "none", !.ret = r, !.done = c.op,
                            !.outer = "none", !.file_changed = FALSE, !.now = 0,
                            !.mtime = file_time_min, !.start_time = 0,
                            !.wait = 0]

\* set_event_driven(enabled); file_watcher_ is never set, there is nothing to
\* stop
set_event_driven(enabled) ==
    /\ call.op = "none" /\ wpc[Getter] = "idle"
    /\ tuner.use_event_driven_ # enabled
    /\ tuner' = [tuner EXCEPT !.use_event_driven_ = enabled]
    /\ NoWatcherStep
    /\ UNCHANGED <<call, file, fs_clock, now, tunerRest>>

\* ---- try_get ----
try_get_call ==
    /\ call.op = "none" /\ wpc[Getter] = "idle"
    /\ call.n < MaxCalls
    /\ call' = NewCall("try_get", "tg_begin")
    /\ NoWatcherStep
    /\ UNCHANGED <<tuner, file, fs_clock, now, tunerRest>>

\* try_get hands res to its caller: the application, or the loop of
\* get_timeout_polling or get_timeout_event_driven
tg_return(res, c) ==
    LET d == [c EXCEPT !.tg = IF res THEN "true" ELSE "false"] IN
    CASE c.outer = "none" ->
            /\ call' = Returned(d, d.tg)
            /\ NoWatcherStep
      [] c.outer = "gt_poll" ->
            /\ call' = IF res THEN Returned(d, "true")
                       ELSE [d EXCEPT !.pc = "gtp_sleep", !.outer = "none"]
            /\ NoWatcherStep
      [] c.outer = "gt_ev" ->
            IF res
            THEN /\ call' = [d EXCEPT !.pc = "gte_true", !.outer = "none"]
                 /\ BeginStop(Getter)
            ELSE /\ call' = [d EXCEPT !.pc = "gte_test", !.outer = "none",
                                      !.wait = Min(d.timeout - d.elapsed, sleep_interval)]
                 /\ BeginWait(Getter)

\* now is sampled, the file is made to exist, its modify-time is taken and the
\* cache is checked
tg_begin ==
    /\ call.pc = "tg_begin"
    /\ EnsureFile
    /\ LET current_modify_time == get_file_modify_time(file') IN
       IF cache_hit(tuner.file_cache_, now, current_modify_time)
       THEN tg_return(FALSE, call)
       ELSE /\ call' = [call EXCEPT !.pc = "tg_read", !.now = now,
                                    !.mtime = current_modify_time]
            /\ NoWatcherStep
    /\ UNCHANGED <<tuner, now, tunerRest>>

\* the file is read and parsed into a temporary; the value, the cache and
\* last_error_ are updated
tg_read ==
    /\ call.pc = "tg_read"
    /\ LET r == read_value(file, DefaultRetryConfig, 0) IN
       /\ tuner' = [tuner EXCEPT
              !.last_error_ = r.error,
              !.file_cache_ = IF r.read
                              THEN [last_modify_time |-> call.mtime,
                                    last_access |-> call.now, file_exists |-> TRUE]
                              ELSE [@ EXCEPT !.file_exists = FALSE,
                                             !.last_access = call.now],
              !.last_read = IF r.read THEN Snapshot(file) ELSE @]
       /\ tg_return(r.found, [call EXCEPT !.value = IF r.found THEN r.value ELSE @,
                                          !.stored = r.found,
                                          !.src = IF r.found THEN file.lines ELSE @])
    /\ UNCHANGED <<file, fs_clock, now, tunerRest>>

\* ---- get_timeout ----
\* the flag is copied, the file is made to exist; the event-driven variant
\* makes its watcher and starts it, the polling variant samples start_time
get_timeout_call(timeout) ==
    /\ call.op = "none" /\ wpc[Getter] = "idle"
    /\ call.n < MaxCalls
    /\ ~running_ /\ wpc[Worker] = "none"
    /\ EnsureFile
    /\ IF tuner.use_event_driven_
       THEN /\ call' = [NewCall("get_timeout", "gte_begin") EXCEPT
                            !.timeout = timeout, !.file_changed = TRUE,
                            !.started = TRUE]
            /\ BeginStart(Getter)
            /\ inotify_pending' = FALSE
       ELSE /\ call' = [NewCall("get_timeout", "gtp_test") EXCEPT
                            !.timeout = timeout, !.start_time = now]
            /\ NoWatcherStep
    /\ UNCHANGED <<tuner, now, tunerRest>>

\* start() has returned: start_time = steady_clock::now()
gte_begin ==
    /\ call.pc = "gte_begin" /\ wpc[Getter] = "idle"
    /\ call' = [call EXCEPT !.pc = "gte_test", !.start_time = now]
    /\ NoWatcherStep
    /\ UNCHANGED <<tuner, file, fs_clock, now, tunerRest>>

\* the head of the loop: the elapsed time against the timeout, then the load
\* of file_changed; with the flag clear the thread waits for a change
gte_test ==
    /\ call.pc = "gte_test" /\ wpc[Getter] = "idle"
    /\ LET elapsed == now - call.start_time IN
       IF elapsed >= call.timeout
       THEN /\ call' = [call EXCEPT !.pc = "gte_timeout", !.elapsed = elapsed]
            /\ BeginStop(Getter)
       ELSE IF call.file_changed
       THEN /\ call' = [call EXCEPT !.pc = "gte_clear", !.elapsed = elapsed]
            /\ NoWatcherStep
       ELSE /\ call' = [call EXCEPT !.elapsed = elapsed,
                                    !.wait = Min(call.timeout - elapsed, sleep_interval)]
            /\ BeginWait(Getter)
    /\ UNCHANGED <<tuner, file, fs_clock, now, tunerRest>>

\* file_changed.store(false), then try_get(value)
gte_clear ==
    /\ call.pc = "gte_clear"
    /\ call' = [call EXCEPT !.pc = "tg_begin", !.outer = "gt_ev",
                            !.file_changed = FALSE]
    /\ NoWatcherStep
    /\ UNCHANGED <<tuner, file, fs_clock, now, tunerRest>>

\* a variant of the timeout return that leaves last_error_ as it is
gte_timeout_silent ==
    /\ call.pc = "gte_timeout" /\ wpc[Getter] = "idle"
    /\ call' = Returned(call, "false")
    /\ NoWatcherStep
    /\ UNCHANGED <<tuner, file, fs_clock, now, tunerRest>>

\* watcher->stop() has returned: last_error_ = Timeout, return false
gte_timeout ==
    /\ call.pc = "gte_timeout" /\ wpc[Getter] = "idle"
    /\ tuner' = [tuner EXCEPT !.last_error_ = "Timeout"]
    /\ call' = Returned(call, "false")
    /\ NoWatcherStep
    /\ UNCHANGED <<file, fs_clock, now, tunerRest>>

\* watcher->stop() has returned: return true
gte_true ==
    /\ call.pc = "gte_true" /\ wpc[Getter] = "idle"
    /\ call' = Returned(call, "true")
    /\ NoWatcherStep
    /\ UNCHANGED <<tuner, file, fs_clock, now, tunerRest>>

\* the head of the polling loop: on timeout last_error_ = Timeout and false,
\* else try_get(value)
gtp_test ==
    /\ call.pc = "gtp_test"
    /\ LET elapsed == now - call.start_time IN
       IF elapsed >= call.timeout
       THEN /\ tuner' = [tuner EXCEPT !.last_error_ = "Timeout"]
            /\ call' = Returned([call EXCEPT !.elapsed = elapsed], "false")
       ELSE /\ call' = [call EXCEPT !.pc = "tg_begin", !.outer = "gt_poll",
                                    !.elapsed = elapsed]
            /\ UNCHANGED tuner
    /\ NoWatcherStep
    /\ UNCHANGED <<file, fs_clock, now, tunerRest>>

\* std::this_thread::sleep_for(100ms)
gtp_sleep ==
    /\ call.pc = "gtp_sleep"
    /\ now + sleep_interval <= MaxNow
    /\ now' = now + sleep_interval
    /\ call' = [call EXCEPT !.pc = "gtp_test"]
    /\ NoWatcherStep
    /\ UNCHANGED <<tuner, file, fs_clock, tunerRest>>

\* the timeout of the thread's wait_for_change elapses
wfc_elapsed(w) ==
    /\ wpc[w] = "waiting"
    /\ timed[w]
    /\ now + call.wait <= MaxNow
    /\ now' = now + call.wait
    /\ cv_waiters' = cv_waiters \ {w}
    /\ timed_out' = [timed_out EXCEPT ![w] = TRUE]
    /\ wpc' = [wpc EXCEPT ![w] = "relock"]
    /\ UNCHANGED <<running_, change_detected_, mode, last_modify_time,
                   inotify_pending, cv_mtx_, timed, result, pipe_signalled,
                   in_start, event_pending, consumed_event>>
    /\ UNCHANGED <<paramsVars, threadVars, file, fs_clock>>
    /\ UNCHANGED auxVars

\* callback_() of the watcher a get or get_timeout started:
\* file_changed.store(true); then back into the worker's loop
nc_callback_get(t) ==
    /\ wpc[t] = "nc_callback"
    /\ call' = [call EXCEPT !.file_changed = TRUE]
    /\ wpc' = [wpc EXCEPT ![t] = IF mode = "polling" THEN "wp_wait" ELSE "n_test"]
    /\ UNCHANGED <<running_, change_detected_, mode, last_modify_time,
                   inotify_pending, cv_mtx_, cv_waiters, timed, timed_out,
                   result, pipe_signalled, in_start, event_pending,
                   consumed_event>>
    /\ UNCHANGED otherVars
    /\ UNCHANGED <<tuner, tunerRest>>

\* the steps of the FileWatcher a call of the thread g started, and of its
\* worker
TunerWatcherNext(g) ==
    \/ start_set(g)
    \/ \E native_ok \in BOOLEAN : start_native(g, native_ok)
    \/ stop_check(g)
    \/ stop_store(g)
    \/ stop_flag(g)
    \/ stop_notify(g)
    \/ stop_native(g)
    \/ stop_join(g)
    \/ wfc_enter(g)
    \/ wfc_block(g)
    \/ wfc_notified(g)
    \/ wfc_relock(g)
    \/ nc_flag(Worker)
    \/ nc_signal(Worker)
    \/ nc_callback_get(Worker)
    \/ wp_test(Worker)
    \/ wp_stat(Worker)
    \/ wp_wait(Worker)
    \/ wp_block(Worker)
    \/ \E by_timeout \in BOOLEAN : wp_wake(Worker, by_timeout)
    \/ wp_relock(Worker)
    \/ n_test(Worker)
    \/ n_poll(Worker)

\* TunerSpec: try_get and get_timeout, the editor and the clock
TunerNext ==
    \/ \E enabled \in BOOLEAN : set_event_driven(enabled)
    \/ try_get_call
    \/ tg_begin
    \/ tg_read
    \/ \E timeout \in Timeouts : get_timeout_call(timeout)
    \/ gte_begin
    \/ gte_test
    \/ gte_clear
    \/ gte_timeout
    \/ gte_true
    \/ gtp_test
    \/ gtp_sleep
    \/ wfc_elapsed(Getter)
    \/ TunerWatcherNext(Getter)
    \/ n_poll_fails(Worker)
    \/ \E content \in TunerContents : WriteFile(content)
    \/ Tick

TunerSpec == Init /\ [][TunerNext]_vars

\* ------------------------------------------------------------------------
\* GetSpec: LiveTuner::get, event-driven and polling, and the editor.  get
\* reads no clock; the worker's poll() and read() succeed.
\* ------------------------------------------------------------------------
\* wait_for_change(1000ms) of get_event_driven
get_wait == 1000

\* the flag is copied and the file made to exist; get_event_driven makes its
\* watcher, sets file_changed and starts the watcher; get_polling goes to its
\* first read
get_call ==
    /\ call.op = "none" /\ wpc[Getter] = "idle"
    /\ call.n < MaxCalls
    /\ ~running_ /\ wpc[Worker] = "none"
    /\ EnsureFile
    /\ IF tuner.use_event_driven_
       THEN /\ call' = [NewCall("get", "ge_test") EXCEPT !.file_changed = TRUE,
                                                         !.started = TRUE]
            /\ BeginStart(Getter)
            /\ inotify_pending' = FALSE
       ELSE /\ call' = NewCall("get", "gp_read")
            /\ NoWatcherStep
    /\ UNCHANGED <<tuner, now, tunerRest>>

\* while (!value_read): the load of file_changed; with the flag clear the
\* thread waits for a change
ge_test ==
    /\ call.pc = "ge_test" /\ wpc[Getter] = "idle"
    /\ IF call.file_changed
       THEN /\ call' = [call EXCEPT !.pc = "ge_clear"]
            /\ NoWatcherStep
       ELSE /\ call' = [call EXCEPT !.wait = get_wait]
            /\ BeginWait(Getter)
    /\ UNCHANGED <<tuner, file, fs_clock, now, tunerRest>>

\* file_changed.store(false)
ge_clear ==
    /\ call.pc = "ge_clear"
    /\ call' = [call EXCEPT !.pc = "ge_read", !.file_changed = FALSE]
    /\ NoWatcherStep
    /\ UNCHANGED <<tuner, file, fs_clock, now, tunerRest>>

\* the file is read and parsed into value; with a value the loop ends and the
\* watcher is stopped, without one last_error_ is set and the thread waits
ge_read ==
    /\ call.pc = "ge_read"
    /\ LET r == read_value(file, DefaultRetryConfig, call.value) IN
       /\ tuner' = [tuner EXCEPT !.last_error_ = r.error]
       /\ IF r.found
          THEN /\ call' = [call EXCEPT !.pc = "ge_ret", !.value = r.value,
                                       !.stored = TRUE, !.src = file.lines]
               /\ BeginStop(Getter)
          ELSE /\ call' = [call EXCEPT !.pc = "ge_test", !.value = r.value,
                                       !.wait = get_wait]
               /\ BeginWait(Getter)
    /\ UNCHANGED <<file, fs_clock, now, tunerRest>>

\* watcher->stop() has returned: get returns
ge_ret ==
    /\ call.pc = "ge_ret" /\ wpc[Getter] = "idle"
    /\ call' = Returned(call, "void")
    /\ NoWatcherStep
    /\ UNCHANGED <<tuner, file, fs_clock, now, tunerRest>>

\* get_polling: the file is read and parsed into value; with a value get
\* returns
gp_read ==
    /\ call.pc = "gp_read"
    /\ LET r == read_value(file, DefaultRetryConfig, call.value) IN
       /\ tuner' = [tuner EXCEPT !.last_error_ = r.error]
       /\ call' = IF r.found
                  THEN Returned([call EXCEPT !.value = r.value, !.stored = TRUE,
                                             !.src = file.lines], "void")
                  ELSE [call EXCEPT !.pc = "gp_sleep", !.value = r.value]
    /\ NoWatcherStep
    /\ UNCHANGED <<file, fs_clock, now, tunerRest>>

\* std::this_thread::sleep_for(100ms) has returned
gp_sleep ==
    /\ call.pc = "gp_sleep"
    /\ call' = [call EXCEPT !.pc = "gp_read"]
    /\ NoWatcherStep
    /\ UNCHANGED <<tuner, file, fs_clock, now, tunerRest>>

GetNext ==
    \/ \E enabled \in BOOLEAN : set_event_driven(enabled)
    \/ get_call
    \/ ge_test
    \/ ge_clear
    \/ ge_read
    \/ ge_ret
    \/ gp_read
    \/ gp_sleep
    \/ wfc_timeout(Getter)
    \/ wfc_spurious(Getter)
    \/ TunerWatcherNext(Getter)
    \/ \E content \in TunerContents : WriteFile(content)

GetSpec == Init /\ [][GetNext]_vars

\* GetLive: GetSpec with the scheduling the threads get.  The calling thread
\* and the worker take the steps they can take; the timeout of a timed wait
\* and the worker's poll interval elapse (wait_for waits up to one deadline,
\* which spurious wake-ups do not move); a thread that asks for cv_mtx_ gets
\* it when the mutex keeps being released.  Nothing makes the application
\* call or the editor write.
GetFairness ==
    /\ WF_vars(ge_test) /\ WF_vars(ge_clear) /\ WF_vars(ge_read) /\ WF_vars(ge_ret)
    /\ WF_vars(gp_read) /\ WF_vars(gp_sleep)
    /\ WF_vars(start_set(Getter))
    /\ WF_vars(\E native_ok \in BOOLEAN : start_native(Getter, native_ok))
    /\ WF_vars(stop_check(Getter))
    /\ WF_vars(stop_store(Getter))
    /\ SF_vars(stop_flag(Getter))
    /\ WF_vars(stop_notify(Getter))
    /\ WF_vars(stop_native(Getter))
    /\ WF_vars(stop_join(Getter))
    /\ SF_vars(wfc_enter(Getter))
    /\ WF_vars(wfc_block(Getter))
    /\ WF_vars(wfc_notified(Getter))
    /\ SF_vars(wfc_timeout(Getter))
    /\ SF_vars(wfc_relock(Getter))
    /\ SF_vars(nc_flag(Worker))
    /\ WF_vars(nc_signal(Worker))
    /\ WF_vars(nc_callback_get(Worker))
    /\ WF_vars(wp_test(Worker))
    /\ WF_vars(wp_stat(Worker))
    /\ SF_vars(wp_wait(Worker))
    /\ WF_vars(wp_block(Worker))
    /\ WF_vars(\E by_timeout \in BOOLEAN : wp_wake(Worker, by_timeout))
    /\ SF_vars(wp_relock(Worker))
    /\ WF_vars(n_test(Worker))
    /\ WF_vars(n_poll(Worker))

GetLive == GetSpec /\ GetFairness

\* ========================================================================
\* Properties
\* ========================================================================
\* what the claims mean by "the typed value of a string": decimal digits only
IsNumeric(str) == str # <<>> /\ \A i \in DOMAIN str : str[i] \in Digits
DecimalValue(str) == IF str = <<"7">> THEN 7 ELSE IF str = <<"2", "5">> THEN 25 ELSE -1

\* the map the file holds, as the claims read it
FileMap(f) == ParseLines(f.lines, EmptyMap)

\* the value a binding is to have once the map new_map has been applied
AppliedValue(name, new_map) ==
    IF name \notin DOMAIN new_map THEN bindings_[name].default_value
    ELSE IF IsNumeric(new_map[name]) THEN DecimalValue(new_map[name])
    ELSE target[name]

\* thread t's update() leaves its locked block in this step, having read the file
ReadsFile(t) ==
    /\ pc[t] = "update" /\ pc'[t] # "update"
    /\ ~(/\ file_cache_.file_exists
         /\ now - file_cache_.last_access < cache_duration
         /\ file.exists /\ file.mtime = file_cache_.last_modify_time)

\* C1: the on_change callback runs on the thread that called update(), inside
\* that call (the thread's update() found a change and snapshotted the
\* callback); the FileWatcher's worker never runs it, it stays in its loop.
C1_CallbackOnCallingThread ==
    /\ pc[Worker] \in {"off", "loop"}
    /\ \A t \in Threads :
          pc[t] \in {"invoke", "in_callback"} =>
              /\ t \in Callers
              /\ updated[t] /\ callback_to_invoke[t]
              /\ pc[t] = "in_callback" => cb_thread = t /\ in_callback_
    /\ cb_thread # "none" => pc[cb_thread] = "in_callback"

\* a callback is running on the main thread while the watcher's worker, which
\* has notified a change, is alive
C1_Witness ==
    /\ pc[Main] = "in_callback" /\ cb_thread = Main
    /\ running_ /\ pc[Worker] = "loop" /\ change_detected_

\* C2: update-then-notify.  The step of update() that decides to invoke the
\* callback has already replaced the stored map by the file's map and given
\* every bound variable its new value; the callback starts only after that
\* step and its start changes neither.
C2_UpdateThenNotify ==
    [][\A t \in Threads :
          /\ (pc[t] = "update" /\ pc'[t] = "invoke") =>
                /\ current_values_' = FileMap(file)
                /\ current_values_' # current_values_
                /\ \A name \in DOMAIN bindings_ :
                      target'[name] = AppliedValue(name, FileMap(file))
          /\ (pc[t] # "in_callback" /\ pc'[t] = "in_callback") =>
                /\ pc[t] = "invoke"
                /\ UNCHANGED <<current_values_, target, bindings_>>]_vars

\* the callback runs with a parsed value and a default already applied
C2_Witness ==
    /\ pc[Main] = "in_callback"
    /\ DOMAIN bindings_ = Keys
    /\ DOMAIN current_values_ = {"speed"}
    /\ current_values_["speed"] = <<"2", "5">>
    /\ target["speed"] = 25 /\ target["gain"] = 1

\* C3: with k bound: an update() that reads a file defining k=v (new to the
\* stored map) returns true with the variable at v; an update() that reads a
\* file from which k has been removed -- also when no key is left -- returns
\* true with the variable back at its default.
C3_RemovedKeyResetsToDefault ==
    [][\A t \in Threads : \A name \in DOMAIN bindings_ :
          (ReadsFile(t) /\ file.exists /\ file.readable /\ file.lines # <<>>) =>
              /\ (/\ name \in DOMAIN FileMap(file)
                  /\ IsNumeric(FileMap(file)[name])
                  /\ (name \notin DOMAIN current_values_
                         \/ current_values_[name] # FileMap(file)[name]))
                 => (updated'[t] /\ target'[name] = DecimalValue(FileMap(file)[name]))
              /\ (name \in DOMAIN current_values_ /\ name \notin DOMAIN FileMap(file))
                 => (updated'[t] /\ target'[name] = bindings_[name].default_value)]_vars

\* C4: an update() that reads and parses the file returns true exactly when
\* the parsed map differs from the stored one; then the stored map is the
\* parsed one, the bindings are re-applied and the registered callback is to
\* be invoked; otherwise nothing changes and no callback is invoked.
C4_TrueIffMapDiffers ==
    [][\A t \in Threads :
          (ReadsFile(t) /\ file.exists /\ file.readable /\ FileMap(file) # EmptyMap) =>
              /\ updated'[t] = (FileMap(file) # current_values_)
              /\ (FileMap(file) # current_values_) =>
                    /\ current_values_' = FileMap(file)
                    /\ \A name \in DOMAIN bindings_ :
                          target'[name] = AppliedValue(name, FileMap(file))
                    /\ pc'[t] = IF on_change_callback_ THEN "invoke" ELSE "idle"
              /\ (FileMap(file) = current_values_) =>
                    /\ pc'[t] = "idle"
                    /\ UNCHANGED <<current_values_, target>>]_vars

\* a save that changed nothing: the second modify-time has been ingested
\* within the cache window and update() returned false
C4_Witness ==
    /\ pc[Main] = "idle" /\ ~updated[Main]
    /\ now = 0 /\ file.exists /\ file.mtime = 2
    /\ file_cache_.file_exists /\ file_cache_.last_modify_time = 2
    /\ current_values_ # EmptyMap /\ current_values_ = FileMap(file)
    /\ on_change_callback_ /\ bindings_ # EmptyMap /\ last_error_ = "None"

\* C5: an update() whose read fails returns false with the reader's error in
\* last_error_, invokes no callback and leaves the stored map and the bound
\* variables as they were.
C5_ReadFailureKeepsValues ==
    [][\A t \in Threads :
          (ReadsFile(t) /\ file.exists /\ (file.lines = <<>> \/ ~file.readable)) =>
              /\ ~updated'[t]
              /\ last_error_' = IF file.lines = <<>> THEN "FileEmpty" ELSE "FileAccessDenied"
              /\ pc'[t] = "idle"
              /\ UNCHANGED <<current_values_, target, bindings_>>]_vars

\* a failed read has left the values of an earlier update in place
C5_Witness ==
    /\ pc[Main] = "idle" /\ ~updated[Main]
    /\ last_error_ \in {"FileEmpty", "FileAccessDenied"}
    /\ "speed" \in DOMAIN bindings_ /\ target["speed"] = 25
    /\ "speed" \in DOMAIN current_values_
    /\ file_cache_.last_modify_time = file.mtime

\* C6: in an update that applies a new map, a binding whose string does not
\* convert keeps its value, and every other binding gets its converted value
\* or, when its name is absent, its default.
C6_ParseFailureIsolated ==
    [][\A t \in Threads :
          (ReadsFile(t) /\ updated'[t]) =>
              \A name \in DOMAIN bindings_ :
                  IF name \in DOMAIN current_values_' /\ ~IsNumeric(current_values_'[name])
                  THEN target'[name] = target[name]
                  ELSE IF name \in DOMAIN current_values_'
                  THEN target'[name] = DecimalValue(current_values_'[name])
                  ELSE target'[name] = bindings_[name].default_value]_vars

\* "speed" kept 25 through an update that read "7x" for it and 7 for "gain"
C6_Witness ==
    /\ updated[Main]
    /\ DOMAIN bindings_ = Keys /\ DOMAIN current_values_ = Keys
    /\ current_values_["speed"] = <<"7", "x">> /\ target["speed"] = 25
    /\ current_values_["gain"] = <<"7">> /\ target["gain"] = 7

\* C7: unbind_all() called from inside the callback leaves the binding table
\* as it was and returns into the callback.
C7_UnbindAllInCallbackNoOp ==
    [][\A t \in Callers :
          (pc[t] = "in_callback" /\ unbind_all(t)) =>
              /\ bindings_' = bindings_
              /\ pc'[t] = "in_callback"]_vars

\* the callback has called unbind_all() and a binding is still there
C7_Witness ==
    /\ pc[Main] = "in_callback"
    /\ last_log = "unbind_all skipped"
    /\ bindings_ # EmptyMap

\* C8: while the callback runs, no call it makes into the Params changes the
\* binding table, the bound variables, the stored map, the cache or the
\* configuration.
C8_NestedCallsAreNoOps ==
    [][\A t \in Callers :
          (pc[t] = "in_callback" /\ pc'[t] = "in_callback") =>
              UNCHANGED <<bindings_, target, current_values_, file_cache_,
                          file_watcher_config_, file_read_retry_config_>>]_vars

\* C9: wait_for_change(timeout) returns true only for a file-change
\* notification, which it consumes; a stopped watcher makes it return false.
C9_TrueOnlyForFileChange ==
    \A w \in Waiters :
        (wpc[w] = "idle" /\ result[w] = "true") =>
            /\ consumed_event[w]
            /\ ~change_detected_ \/ event_pending

\* C10: once stop() has stored the flag and notified, no thread is left
\* blocked in cv_: every thread that was waiting has been woken, whatever the
\* interleaving of stop() with the waiter's test of the predicate.
C10_StopWakesWaiters ==
    (~running_ /\ wpc[Controller] \notin {"stop_flag", "stop_notify"}) =>
        cv_waiters = {}

\* a waiter that blocked while the watcher ran has been notified by stop()
C10_Witness ==
    /\ \E w \in Waiters : wpc[w] = "waiting" /\ w \notin cv_waiters
    /\ ~running_ /\ ~event_pending /\ change_detected_
    /\ wpc[Controller] \in {"stop_native", "stop_join"}

\* C11: a call of stop() returns, and when it returns the worker thread has
\* been joined and running_ is false, whether the worker polls or waits on
\* inotify and wherever it was; a stop() that finds the watcher not running
\* returns at once and changes nothing.
C11_StopJoinsWorker ==
    /\ [][(wpc[Controller] \in StopPcs /\ wpc'[Controller] \notin StopPcs) =>
              (~running_' /\ wpc'[Worker] = "none" /\ mode' = "none")]_vars
    /\ [][(wpc[Controller] = "stop_check" /\ ~running_
              /\ wpc'[Controller] # "stop_check") =>
              /\ wpc'[Controller] \notin StopPcs
              /\ UNCHANGED <<watcherVars, cv_mtx_, cv_waiters, pipe_signalled,
                             inotify_pending, event_pending>>
              /\ wpc'[Worker] = wpc[Worker]]_vars
    /\ (wpc[Controller] \in StopPcs) ~> (wpc[Controller] \notin StopPcs)

\* stop() has returned from joining a polling worker that had seen the file
C11_Witness ==
    /\ wpc[Controller] = "idle" /\ ~running_
    /\ wpc[Worker] = "none" /\ mode = "none"
    /\ last_modify_time # file_time_min /\ change_detected_

\* C12: of two threads that call stop() at the same time on a running
\* watcher, only one performs the native teardown and the join: the two are
\* never both past the notify, in stop_native or at the join of the one
\* worker thread.
C12_TeardownByOneThread ==
    ~(/\ wpc[Controller] \in {"stop_native", "stop_join"}
      /\ wpc[Stopper] \in {"stop_native", "stop_join"})

\* C13: a start whose native set-up fails returns true with the polling
\* worker running, and leaves last_error_ as it was; last_error_ is never
\* WatcherError.
C13_NativeFailureFallsBack ==
    /\ [][(start_result' # start_result \/ (~running_ /\ running_')) =>
              /\ start_result' = "true"
              /\ running_' /\ mode' \in {"native", "polling"}
              /\ pc'[Worker] = "loop"
              /\ last_error_' = last_error_]_vars
    /\ [](last_error_ # "WatcherError")

\* start_watching() has started a watcher that fell back to polling, after an
\* update() that left an error
C13_Witness ==
    /\ start_result = "true" /\ running_ /\ mode = "polling"
    /\ pc[Worker] = "loop" /\ last_error_ = "ParseError"

\* C14: with the polling worker, a modify-time of the watched file that
\* differs from the one the worker holds is noticed by the worker's next
\* poll, which is followed by the notification -- the flag set, the waiters
\* signalled, the callback invoked -- before the worker polls again; and
\* while the watcher runs that poll and that notification do come.
C14_PollingNotifiesChange ==
    /\ [][(wpc[Worker] = "wp_stat" /\ wpc'[Worker] # "wp_stat"
              /\ file.exists /\ file.mtime # last_modify_time) =>
             (wpc'[Worker] = "nc_flag" /\ last_modify_time' = file.mtime)]_vars
    /\ [][(wpc[Worker] = "nc_flag" /\ wpc'[Worker] # "nc_flag") =>
             (change_detected_' /\ wpc'[Worker] = "nc_signal")]_vars
    /\ [][(wpc[Worker] = "nc_signal" /\ wpc'[Worker] # "nc_signal") =>
             (cv_waiters' = {} /\ wpc'[Worker] = "nc_callback")]_vars
    /\ (running_ /\ mode = "polling" /\ file.exists /\ file.mtime # last_modify_time)
          ~> (wpc[Worker] = "nc_callback" \/ ~running_)

\* the polling worker is in the callback for the second save it has seen
C14_Witness ==
    /\ running_ /\ mode = "polling" /\ wpc[Worker] = "nc_callback"
    /\ file.mtime = 2 /\ last_modify_time = 2
    /\ change_detected_ /\ cv_waiters = {}

\* C15: with auto_grow_buffer, buffer_size 4096 and max_buffer_size 8192 and
\* the callback set, the worker's first overflow signal grows the buffer to
\* 8192 and calls the callback with (4096, 8192); an overflow signal at 8192
\* leaves the buffer at 8192 and calls the callback with (8192, 0); the
\* worker keeps running after each.
C15_OverflowGrowsOnceThenReports ==
    [][(/\ overflow_signals' = overflow_signals + 1
        /\ config_.auto_grow_buffer /\ config_.on_buffer_overflow
        /\ config_.buffer_size = 4096 /\ config_.max_buffer_size = 8192) =>
          /\ running_' /\ buffer' > 0
          /\ buffer = 4096 =>
                /\ buffer' = 8192
                /\ overflow_calls' = Append(overflow_calls, <<4096, 8192>>)
          /\ buffer = 8192 =>
                /\ buffer' = 8192
                /\ overflow_calls' = Append(overflow_calls, <<8192, 0>>)]_vars

\* C16: with max_retries 3, retry_delay 5 ms and multiplier 1.5, a read that
\* fails on attempts 0, 1, 2 and succeeds on attempt 3 has requested at least
\* 5 + 7.5 + 11.25 = 23.75 ms of sleep (four times the sleep is at least 95)
\* and returns the content of attempt 3.
C16_BackoffSleepTotal ==
    (/\ reader.done
     /\ reader.config = DefaultRetryConfig
     /\ \A i \in 1..3 : reader.obs[i].error # "None"
     /\ reader.obs[4].error = "None") =>
        /\ 4 * reader.result.slept >= 95
        /\ reader.result.has_content
        /\ reader.result.content = reader.obs[4].content

\* C17: when every attempt of a call fails, the call reports the error of
\* its last attempt, attempt max_retries.
C17_LastErrorReported ==
    (/\ reader.done
     /\ reader.config.max_retries >= 0
     /\ \A i \in 1..(reader.config.max_retries + 1) : reader.obs[i].error # "None") =>
        /\ ~reader.result.has_content
        /\ reader.result.attempts = reader.config.max_retries + 1
        /\ reader.result.error = reader.obs[reader.config.max_retries + 1].error

\* four failed attempts, the first and the last of different kinds
C17_Witness ==
    /\ reader.done /\ reader.config.max_retries = 3
    /\ \A i \in 1..4 : reader.obs[i].error # "None"
    /\ reader.obs[1].error = "FileNotFound" /\ reader.obs[4].error = "FileEmpty"
    /\ reader.result.error = "FileEmpty"

\* C18: a call yields either a content and the error kind None, or no
\* content and an error kind other than None, whatever the policy.
C18_ContentXorFailure ==
    reader.done =>
        \/ reader.result.has_content /\ reader.result.error = "None"
        \/ ~reader.result.has_content /\ reader.result.error # "None"

\* C19: after the constructor, after every set_config and set_watcher_config
\* and after every growth of the worker's buffer,
\* min_buffer_size <= buffer_size <= max_buffer_size, also for a configuration
\* whose max_buffer_size is below min_buffer_size.
C19_BufferSizeWithinBounds ==
    /\ min_buffer_size <= config_.buffer_size
    /\ config_.buffer_size <= config_.max_buffer_size
    /\ min_buffer_size <= file_watcher_config_.buffer_size
    /\ file_watcher_config_.buffer_size <= file_watcher_config_.max_buffer_size
    /\ buffer > 0 => (min_buffer_size <= buffer /\ buffer <= config_.max_buffer_size)

\* C20: an update() that finds no file creates it with the template of the
\* format and is not an error: when it returns, last_error_ is None.
C20_MissingFileIsNoError ==
    [][\A t \in Threads :
          (pc[t] = "update" /\ pc'[t] # "update" /\ ~file.exists) =>
              /\ file'.exists /\ file'.lines = KeyValueTemplate
              /\ last_error_' = "None"]_vars

\* C21: an update() that reads the file and meets a failure -- the read
\* fails, the content holds no key, or the map it applies holds for a bound
\* name a string that does not convert -- returns with last_error_ other than
\* None; and last_error_ is changed only by an update() that reads the file
\* or by a reset to None.
C21_FailureLeavesError ==
    /\ [][\A t \in Threads :
             (/\ ReadsFile(t)
              /\ LET f == ensure_file_exists(file, fs_clock) IN
                 \/ Attempt(f) # "None"
                 \/ FileMap(f) = EmptyMap
                 \/ /\ FileMap(f) # current_values_
                    /\ \E name \in DOMAIN bindings_ :
                          /\ name \in DOMAIN FileMap(f)
                          /\ ~IsNumeric(FileMap(f)[name]))
                => last_error_' # "None"]_vars
    /\ [][last_error_' # last_error_ =>
             \/ \E t \in Threads : ReadsFile(t)
             \/ last_error_' = "None"]_vars

\* C24: while the Params is watching, a file whose map differs from the
\* stored one comes to be ingested -- the stored map becomes the file's map,
\* and with it the bound variables -- without the application calling
\* update() or poll(): no step of the application's thread is needed for it.
C24_WatchingUpdatesBindings ==
    (/\ file_watcher_ /\ running_
     /\ pc[Main] = "idle"
     /\ file.exists /\ FileMap(file) # current_values_)
        ~> (current_values_ = FileMap(file) \/ ~running_ \/ pc[Main] # "idle")

\* C30: while the watcher reports running and no start() or stop() is under
\* way, its one worker thread is alive -- it has not left its thread function
\* -- and when start() comes to create the worker no worker of an earlier run
\* is left.
C30_OneWorkerWhileRunning ==
    /\ (running_ /\ wpc[Controller] = "idle") => wpc[Worker] \notin {"none", "exited"}
    /\ wpc[Controller] = "start_native" => wpc[Worker] = "none"

C28_AttemptClassification ==
    reader.done =>
        \A i \in 1..reader.result.attempts :
            LET o == reader.raw[i]
                e == reader.obs[i].error
            IN
            /\ (~o.exists /\ ~o.ec_exists) => e = "FileNotFound"
            /\ (o.ec_exists \/ (o.exists /\ o.ec_size)) => e = "FileAccessDenied"
            /\ (o.exists /\ ~o.ec_exists /\ ~o.ec_size /\ o.file_size = 0) => e = "FileEmpty"
            /\ (/\ o.exists /\ ~o.ec_exists /\ ~o.ec_size /\ o.file_size > 0
                /\ o.opens /\ o.read = "ok" /\ o.content = <<>>) => e = "FileEmpty"
            /\ (/\ o.exists /\ ~o.ec_exists /\ ~o.ec_size /\ o.file_size > 0
                /\ o.opens /\ o.read \in {"throws", "bad"}) => e = "FileReadError"

\* C26: an ErrorInfo converts to true exactly when its type is not None; a
\* default-constructed one has type None and converts to false; one
\* constructed with a type has that type, and converts to true when the type
\* is not None.
C26_BoolIffTypeNotNone ==
    /\ einfo.arg = "default" => einfo.info.type = "None"
    /\ einfo.arg # "default" => einfo.info.type = einfo.arg
    /\ einfo.as_bool # "none" =>
          /\ (einfo.as_bool = "true") <=> (einfo.info.type # "None")
          /\ einfo.arg = "default" => einfo.as_bool = "false"
          /\ einfo.arg \notin {"default", "None"} => einfo.as_bool = "true"

\* an ErrorInfo of type FileNotFound with an empty message has converted to true
C26_Witness ==
    /\ einfo.arg = "FileNotFound" /\ einfo.info.message = ""
    /\ einfo.as_bool = "true"

\* C29: the polling worker starts with an interval of 50 ms; a poll that
\* sees no change, once more than ten in a row have seen none, doubles the
\* interval up to 500 ms and otherwise leaves it; the poll that detects a
\* change sets the interval back to the 50 ms it started with; the interval
\* is never below 50 ms nor above 500 ms.
C29_PollIntervalAdapts ==
    /\ [](running_ /\ mode = "polling" =>
             /\ initial_poll_interval <= poller.poll_interval
             /\ poller.poll_interval <= max_interval)
    /\ [][(~running_ /\ running_') =>
             poller'.poll_interval = initial_poll_interval]_vars
    /\ [][(running_ /\ running_' /\ poller' # poller) =>
             IF last_modify_time' # last_modify_time
             THEN poller'.poll_interval = initial_poll_interval
             ELSE poller'.poll_interval =
                      IF poller'.no_change_count > 10
                      THEN Min(2 * poller.poll_interval, max_interval)
                      ELSE poller.poll_interval]_vars

\* C22: get_timeout returns true only after a valid value was parsed from the
\* file and stored in value, and before the timeout had elapsed; when it
\* returns false the timeout has elapsed, value is what it was at the call
\* and last_error_ is Timeout, in the event-driven and in the polling variant;
\* when it has returned, the watcher it started is stopped and its worker
\* joined.
C22_GetTimeoutContract ==
    (call.op = "none" /\ call.done = "get_timeout") =>
        /\ call.ret \in {"true", "false"}
        /\ call.ret = "true" =>
              /\ call.stored
              /\ first_value(call.src, call.entry).found
              /\ call.value = first_value(call.src, call.entry).value
              /\ call.elapsed < call.timeout
        /\ call.ret = "false" =>
              /\ call.elapsed >= call.timeout
              /\ call.value = call.entry
              /\ ~call.stored
              /\ tuner.last_error_ = "Timeout"
        /\ ~running_
        /\ wpc[Worker] = "none"
        /\ mode = "none"

\* an event-driven get_timeout with a positive timeout, whose try_get found
\* no value, has returned false
C22_Witness ==
    /\ call.op = "none" /\ call.done = "get_timeout"
    /\ call.started /\ call.timeout > 0
    /\ call.tg = "false"
    /\ call.ret = "false"

\* C23: a try_get returns true only when the file (content and modify-time)
\* differs from what the previous try_get that read it saw.
C23_TrueOnlyWhenFileChanged ==
    [][(call.pc = "tg_read" /\ call'.pc # "tg_read" /\ call'.tg = "true") =>
           tuner.last_read # Snapshot(file)]_vars

\* the file holds a value get can read
FileHasValue == file.exists /\ file.readable /\ first_value(file.lines, 0).found

C32_CacheHitShortCircuits ==
    [][\A t \in Threads :
          (/\ pc[t] = "update" /\ pc'[t] # "update"
           /\ file.exists
           /\ file_cache_.file_exists
           /\ (now - file_cache_.last_access) < cache_duration
           /\ file.mtime = file_cache_.last_modify_time)
          => /\ pc'[t] = ReturnPc(t)
             /\ ~updated'[t]
             /\ ~callback_to_invoke'[t]
             /\ UNCHANGED <<current_values_, target, file_cache_, last_error_,
                            file, in_callback_>>]_vars

\* the one save of the file was ingested, the file then became unreadable,
\* and a second update() within the window has returned false with
\* last_error_ still None
C32_Witness ==
    /\ pc[Main] = "idle" /\ ~updated[Main]
    /\ fs_clock = 1 /\ file.exists /\ file.mtime = 1 /\ ~file.readable
    /\ now = 0
    /\ file_cache_.file_exists /\ file_cache_.last_modify_time = 1
    /\ current_values_ # EmptyMap /\ current_values_ = FileMap(file)
    /\ last_error_ = "None"

\* C39: on a watcher that runs (again), wait_for_change(timeout) returns true
\* only for a file event: the flag that stop() stored to wake the waiters does
\* not make a wait after the following start() return true.
C39_NoSpuriousChangeAfterRestart ==
    [][\A w \in Waiters :
          (/\ wpc[w] \in {"enter", "relock"} /\ wpc'[w] = "idle"
           /\ running_ /\ wpc[Controller] = "idle"
           /\ result'[w] = "true")
          => event_pending]_vars

\* C35: an update() that reads the file completes with every bound variable
\* whose name the file defines with a numeric value at that value, whether
\* the binding was made before or after the content was first ingested.
C35_BoundVariableFollowsFile ==
    [][\A t \in Threads : \A name \in DOMAIN bindings_ :
          (/\ ReadsFile(t) /\ file.exists /\ file.readable
           /\ name \in DOMAIN FileMap(file)
           /\ IsNumeric(FileMap(file)[name]))
          => target'[name] = DecimalValue(FileMap(file)[name])]_vars

\* C37: a poll() made while in_callback_ is set, whose update() is skipped by
\* the guard, leaves the pending file_changed_ flag set.
C37_SkippedPollKeepsFlag ==
    [][(file_changed_ /\ in_callback_) => file_changed_']_vars

\* C38: with "speed" bound, the Params watching and poll() called every
\* frame: when the file stays as its m-th save left it, readable and with a
\* value for "speed", the bound variable comes to equal the file's value.
C38_EventuallyConsistent ==
    \A m \in 1..MaxWrites :
        <>[](/\ file_watcher_ /\ running_ /\ "speed" \in DOMAIN bindings_
             /\ file.exists /\ file.readable /\ file.mtime = m
             /\ "speed" \in DOMAIN FileMap(file))
        => <>(/\ "speed" \in DOMAIN FileMap(file)
              /\ target["speed"] = DecimalValue(FileMap(file)["speed"]))

\* C33: a thread that reads or writes the binding table, the stored map, the
\* modify-time cache or the configuration holds mtx_ while it does.
C33_GuardedStateUnderMutex ==
    \A t \in AppThreads : apc[t] \in AccessPcs => mtx_ = t

\* C36: in_callback_ is set exactly while some thread's update() is executing
\* the on_change callback, whatever the interleaving of the two threads.
C36_FlagIffCallbackRuns ==
    in_callback_ <=> (\E t \in AppThreads : apc[t] \in CallbackPcs)

\* C34: update() snapshots the callback under mtx_, releases mtx_ and only
\* then invokes the callback: a thread never holds mtx_ while its callback
\* runs, and a call the callback makes that takes mtx_ (get, has, last_error,
\* on_change) comes to hold it.
C34_CallbackOutsideMutex ==
    /\ [](\A t \in AppThreads :
             apc[t] \in {"invoke", "in_callback", "cb_lock"} => mtx_ # t)
    /\ [][\A t \in AppThreads :
             (apc[t] # "invoke" /\ apc'[t] = "invoke") =>
                 (apc[t] = "u_unlock" /\ snapshot[t] /\ mtx_ = t /\ mtx_' = "free")]_vars
    /\ \A t \in AppThreads : (apc[t] = "cb_lock") ~> (apc[t] = "cb_locked")

\* a callback's call holds mtx_ while the other thread waits for it in update()
C34_Witness ==
    /\ apc["t1"] = "cb_locked" /\ mtx_ = "t1" /\ in_callback_
    /\ apc["t2"] = "u_lock"

\* C31: after the move from a running watcher, `other` reports not running
\* and a stop() or destructor of it tears nothing down and joins nothing; the
\* worker keeps running for `this` and leaves its loop only in a stop() of
\* `this`, which joins it.
C31_WorkerStoppedThroughMovedTo ==
    /\ [](WatcherMoved => (~fwm.running_["other"] /\ ~fwm.joinable["other"]
                           /\ fwm.stop.obj # "other"))
    /\ [][(/\ WatcherMoved
           /\ fwm.worker \in {"test", "wait"}
           /\ fwm'.worker \in {"exited", "crashed"})
          => (fwm.stop.obj = "this" /\ fwm.stop.pc \in {"flag", "native", "join"})]_vars

\* C40: after the move of a watching Params, an event the transferred
\* watcher notifies sets file_changed_ of `this`, the Params that now holds
\* the watcher, and leaves `other` as it was.
C40_EventsReachMovedTo ==
    [][(ParamsMoved /\ pm.alive["this"] /\ move_watch_callback("this"))
          => (/\ pm'.file_changed_["this"]
              /\ pm'.file_changed_["other"] = pm.file_changed_["other"]
              /\ ~pm'.crashed)]_vars

====
